---- MODULE Spec2Model ----
(***************************************************************************)
(* Model/subscription/API-key consistency and cascade engine of litemaas.  *)
(*                                                                         *)
(* The relational store is modelled by one variable per table, the         *)
(* external proxy by the set of key secrets it currently accepts, and      *)
(* every service call by a request record that walks through the awaits    *)
(* of its handler.  Every database statement and every proxy call may      *)
(* fail.  A transaction works on the tables as seen at BEGIN plus its own  *)
(* writes and installs them at COMMIT.                                     *)
(*                                                                         *)
(* Spec serves the requests one after another: a handler runs to its       *)
(* return before the next request is admitted.  The database-backed        *)
(* configuration is modelled (shouldUseMockData() and enableMocking are    *)
(* false).                                                                 *)
(*                                                                         *)
(* Spec covers markModelUnavailable, createApiKey and rotateApiKey; it     *)
(* does not follow the proxy's per-key model lists nor its model catalog,  *)
(* which stay as Init set them.  The model-removal path, the reads, key    *)
(* deletion, the restriction cascade and the catalog synchronisation have  *)
(* a specification each (SpecRemove, SpecRead, SpecDelete, SpecRestrict,   *)
(* SpecSync), started on a store of their own.                             *)
(***************************************************************************)
EXTENDS Integers, Sequences, FiniteSets, TLC

\* ------------------------------------------------------------------ bounds

\* Number of service calls admitted in one behaviour.
MaxCalls == 2

\* The instants a call can be made at: 1 .. MaxTime.
MaxTime == 3

\* The largest number of entries in the proxy's model catalog.
MaxCatalog == 2

\* The clock runs over MaxPeriods periods of CIRCUIT_BREAKER_TIMEOUT, and
\* up to MaxOffset milliseconds into each of them.
MaxPeriods == 2
MaxOffset == 2

\* ------------------------------------------------------- program constants

maxKeysPerUser == 10

\* ------------------------------------------------------------- value sets

Users == {"u1", "u2"}
Models == {"m1", "m2"}
Reqs == {"r1", "r2"}
\* The slots Spec admits requests to.
Serving == {"r1"}

\* A key secret: issued by the proxy (/key/generate) or made locally from
\* randomBytes.  NoSecret stands for a NULL lite_llm_key_value.
Secret(src, n) == [src |-> src, n |-> n]
NoSecret == Secret("none", 0)
\* NULL in an id column (subscription_id of a multi-model key).
NoSub == 0
NoKey == NoSub
\* NULL in subscriptions.status_reason.
NoReason == "null"
\* NULL in api_keys.expires_at; the other instants are 1, 2, ...
NoExpiry == 0
\* JavaScript undefined and SQL NULL in a column the catalog sync copies.
Undefined == "undefined"
Null == "null"

\* sha256 hex digest of a key: distinct keys have distinct digests and a
\* digest is never itself a key.
hashApiKey(key) == [sha256 |-> key]

\* A models row: the columns the cascades and the catalog sync read.
\* litellm_model_id and tpm stand for the columns copied from the proxy's
\* model entry (litellm_model_id for those compared as they are, tpm for
\* those compared through "|| null").  description is the administrator's
\* text; a row is made with description NULL.
ModelRow(availability, restrictedAccess, litellmModelId, tpm) ==
    [availability |-> availability, restrictedAccess |-> restrictedAccess,
     litellmModelId |-> litellmModelId, tpm |-> tpm, description |-> Null]

VARIABLES
    models,          \* models table: model id -> row
    subscriptions,   \* subscriptions table: set of rows
    api_keys,        \* api_keys table: set of rows
    api_key_models,  \* api_key_models table: set of <<api_key_id, model_id>>
    audit_logs,      \* audit_logs table: sequence of rows
    proxyKeys,       \* the key secrets the proxy accepts
    proxyKeyModels,  \* the proxy's allowed models of a key: set of <<secret, model>>
    proxyModels,     \* the proxy's model catalog: the sequence /model/info returns
    subscription_status_history,  \* subscription_status_history table: sequence of rows
    circuitBreaker,  \* LiteLLMService's breaker: isOpen, failureCount, lastFailureTime
    clock,           \* Date.now(), in milliseconds
    cache,           \* LiteLLMService instance -> its cache entry of the model list
    nextId,          \* source of fresh row ids and fresh random bytes
    calls,           \* number of calls admitted so far
    req              \* request slot -> the call it is serving

vars == <<models, subscriptions, api_keys, api_key_models, audit_logs,
          proxyKeys, proxyKeyModels, proxyModels, subscription_status_history,
          circuitBreaker, clock, cache, nextId, calls, req>>

\* LiteLLMService's constants.
CIRCUIT_BREAKER_THRESHOLD == 5
CIRCUIT_BREAKER_TIMEOUT == 30000
retryAttempts == 3
retryDelay == 1000

\* isCircuitBreakerOpen = false, circuitBreakerFailureCount = 0,
\* circuitBreakerLastFailureTime = 0: the breaker of a new LiteLLMService.
ClosedBreaker == [isOpen |-> FALSE, failureCount |-> 0, lastFailureTime |-> 0]

\* The LiteLLMService instances whose model-list cache is followed: the one
\* the routes of routes/models.ts share and the one ModelSyncService makes
\* for itself.  Each has its own cache Map.
Services == {"route", "sync"}
DEFAULT_CACHE_TTL == 300000

\* this.cache.get(cacheKey) of the key 'litellm:models:default': undefined, or
\* {data, timestamp, ttl}.
NoEntry == [present |-> FALSE, data |-> <<>>, timestamp |-> 0, ttl |-> 0]

\* No status change recorded yet, new LiteLLMService instances, and the clock
\* at an instant later than CIRCUIT_BREAKER_TIMEOUT after the epoch.
OthersInit ==
    /\ subscription_status_history = <<>>
    /\ circuitBreaker = ClosedBreaker
    /\ clock = CIRCUIT_BREAKER_TIMEOUT + 1
    /\ cache = [s \in Services |-> NoEntry]

\* The tables, as one value (a transaction's view, a snapshot).
Tables ==
    [models |-> models, subscriptions |-> subscriptions, api_keys |-> api_keys,
     api_key_models |-> api_key_models, audit_logs |-> audit_logs]

NoTables ==
    [models |-> [m \in Models |-> ModelRow("available", FALSE, m, Null)],
     subscriptions |-> {}, api_keys |-> {}, api_key_models |-> {},
     audit_logs |-> <<>>]

ZeroCascade ==
    [subscriptionsDeactivated |-> 0, apiKeyModelAssociationsRemoved |-> 0,
     orphanedApiKeysDeactivated |-> 0]

IdleReq ==
    [op |-> "none", pc |-> "idle", userId |-> "u1", modelId |-> "m1",
     modelIds |-> {}, subscriptionId |-> NoSub, keyId |-> NoKey,
     pre |-> NoTables, preProxy |-> {}, tx |-> NoTables,
     error |-> "none", named |-> {}, failedAt |-> "none",
     cascadeResult |-> ZeroCascade, key |-> NoSecret, newKeyId |-> NoKey,
     cleanup |-> "none", apiKeys |-> {}, liteLLMUpdates |-> {},
     now |-> 1, result |-> [kind |-> "none"], proxyAnswer |-> "none",
     restrictedAccess |-> FALSE, previousValue |-> FALSE, users |-> {},
     forceUpdate |-> FALSE, markUnavailable |-> FALSE, litellmModels |-> <<>>,
     existingModelIds |-> {}, unavailableModelIds |-> {},
     previous |-> [kind |-> "none"], modelList |-> <<>>, subsByModel |-> <<>>,
     attempt |-> 0, fetches |-> 0, trial |-> FALSE,
     service |-> "route", refresh |-> FALSE, fromCache |-> FALSE,
     entry |-> NoEntry, delay |-> 0]

\* ------------------------------------------------------- table operators

ActiveKeyCount(keys, userId) ==
    Cardinality({k \in keys : k.userId = userId /\ k.isActive})

KeyModels(akm, keyId) == {row[2] : row \in {x \in akm : x[1] = keyId}}

\* database-migrations.ts fixKeyHashMigration: key_hash becomes the digest of
\* lite_llm_key_value wherever that value is not NULL and the two differ.
fixKeyHashMigration(keys) ==
    {IF k.liteLLMKeyValue # NoSecret /\ k.keyHash # hashApiKey(k.liteLLMKeyValue)
        THEN [k EXCEPT !.keyHash = hashApiKey(k.liteLLMKeyValue)]
        ELSE k : k \in keys}

\* ------------------------------------------------------------ initial state

SubRow(id, userId, modelId, status) ==
    [id |-> id, userId |-> userId, modelId |-> modelId, status |-> status,
     statusReason |-> NoReason]

KeyRow(id, userId, isActive, keyHash, value, subscriptionId) ==
    [id |-> id, userId |-> userId, isActive |-> isActive, keyHash |-> keyHash,
     liteLLMKeyValue |-> value, subscriptionId |-> subscriptionId,
     expiresAt |-> NoExpiry]

\* The store the service starts on: u1 holds 1 or maxKeysPerUser - 1
\* multi-model keys on the models it has an active subscription to (none when
\* it has no such model), possibly one legacy single-subscription key without
\* join-table rows, and u2 holds one key on m1.
\* Rows written before the key-hash fix carry the digest of a local key;
\* applyMigrations runs fixKeyHashMigration before the service accepts calls.
InitSubscriptions(s1, s2) ==
    {SubRow(1, "u1", "m1", s1) : x \in IF s1 = "none" THEN {} ELSE {1}}
    \cup {SubRow(2, "u1", "m2", s2) : x \in IF s2 = "none" THEN {} ELSE {1}}
    \cup {SubRow(3, "u2", "m1", "active")}

InitKeys(n, legacy, oldHash) ==
    {KeyRow(i, "u1", TRUE,
            IF oldHash THEN hashApiKey(Secret("local", i))
                       ELSE hashApiKey(Secret("litellm", i)),
            Secret("litellm", i), NoSub) : i \in 1..n}
    \cup {KeyRow(11, "u1", TRUE, hashApiKey(Secret("local", 11)), NoSecret, 1) :
            x \in IF legacy THEN {1} ELSE {}}
    \cup {KeyRow(12, "u2", TRUE, hashApiKey(Secret("litellm", 12)),
                 Secret("litellm", 12), NoSub)}

Init ==
    \E s1 \in {"none", "active", "pending"}, s2 \in {"none", "active"},
       n \in {0, 1, maxKeysPerUser - 1}, legacy \in BOOLEAN, oldHash \in BOOLEAN :
        LET A == {m \in Models : (m = "m1" /\ s1 = "active") \/ (m = "m2" /\ s2 = "active")}
        IN  /\ (n = 0 <=> A = {})
            /\ (legacy => s1 # "none")
            /\ models = [m \in Models |-> ModelRow("available", FALSE, m, Null)]
            /\ subscriptions = InitSubscriptions(s1, s2)
            /\ api_keys = fixKeyHashMigration(InitKeys(n, legacy, oldHash))
            /\ api_key_models = ((1..n) \X A) \cup {<<12, "m1">>}
            /\ audit_logs = <<>>
            /\ proxyKeys = {Secret("litellm", i) : i \in (1..n) \cup {12}}
            /\ proxyKeyModels = ({Secret("litellm", i) : i \in 1..n} \X A)
                                    \cup {<<Secret("litellm", 12), "m1">>}
            /\ proxyModels = <<>>
            /\ nextId = 20
            /\ calls = 0
            /\ OthersInit
            /\ req = [r \in Reqs |-> IdleReq]

\* ------------------------------------------------------------ call frames

Quiet == \A q \in Reqs : req[q].pc = "idle"

Set(r, rec) == req' = [req EXCEPT ![r] = rec]

DbUnchanged ==
    UNCHANGED <<models, subscriptions, api_keys, api_key_models, audit_logs>>

Commit(t) ==
    /\ models' = t.models
    /\ subscriptions' = t.subscriptions
    /\ api_keys' = t.api_keys
    /\ api_key_models' = t.api_key_models
    /\ audit_logs' = t.audit_logs

Admit(r, rec) ==
    /\ req[r].pc = "idle"
    /\ calls < MaxCalls
    /\ calls' = calls + 1
    /\ Set(r, [rec EXCEPT !.pre = Tables, !.preProxy = proxyKeys])

\* The handler has returned or thrown; the slot serves the next request.
Finish(r) ==
    /\ req[r].pc = "done"
    /\ Set(r, IdleReq)
    /\ DbUnchanged
    /\ UNCHANGED <<proxyKeys, nextId, calls>>

\* ------------------------------- ModelSyncService.markModelUnavailable

AuditRow(userId, action, resourceType, resourceId, success) ==
    [userId |-> userId, action |-> action, resourceType |-> resourceType,
     resourceId |-> resourceId, success |-> success]

\* UPDATE models SET availability = 'unavailable'
\*  WHERE id = $1 AND availability != 'unavailable' RETURNING id
\* (mutant: the WHERE clause without "AND availability != 'unavailable'")
MmuModelRowsUnguarded(t, modelId) == {modelId}
MmuModelRows(t, modelId) ==
    {m \in {modelId} : t.models[m].availability # "unavailable"}
MmuUpdateModel(t, modelId) ==
    [t EXCEPT !.models =
        [m \in DOMAIN t.models |-> IF m \in MmuModelRows(t, modelId)
                            THEN [t.models[m] EXCEPT !.availability = "unavailable"]
                            ELSE t.models[m]]]

\* UPDATE subscriptions SET status = 'inactive'
\*  WHERE model_id = $1 AND status = 'active' RETURNING id
MmuSubscriptionRows(t, modelId) ==
    {s \in t.subscriptions : s.modelId = modelId /\ s.status = "active"}
\* (mutant: the UPDATE writes status 'suspended')
MmuUpdateSubscriptionsSuspends(t, modelId) ==
    [t EXCEPT !.subscriptions =
        {IF s \in MmuSubscriptionRows(t, modelId)
            THEN [s EXCEPT !.status = "suspended"] ELSE s : s \in t.subscriptions}]
MmuUpdateSubscriptions(t, modelId) ==
    [t EXCEPT !.subscriptions =
        {IF s \in MmuSubscriptionRows(t, modelId)
            THEN [s EXCEPT !.status = "inactive"] ELSE s : s \in t.subscriptions}]

\* DELETE FROM api_key_models WHERE model_id = $1 RETURNING api_key_id
\* (mutant: the DELETE matches no row)
MmuAssociationRowsNone(t, modelId) == {}
MmuAssociationRows(t, modelId) == {row \in t.api_key_models : row[2] = modelId}
MmuDeleteAssociations(t, modelId) ==
    [t EXCEPT !.api_key_models = t.api_key_models \ MmuAssociationRows(t, modelId)]

\* UPDATE api_keys SET is_active = false WHERE id IN (SELECT ak.id FROM api_keys ak
\*  LEFT JOIN api_key_models akm ON ak.id = akm.api_key_id
\*  WHERE akm.api_key_id IS NULL AND ak.is_active = true) RETURNING id
\* (mutant: JOIN instead of LEFT JOIN, so no row has akm.api_key_id IS NULL)
MmuOrphanedKeyRowsInnerJoin(t) == {}
MmuOrphanedKeyRows(t) ==
    {k \in t.api_keys : k.isActive /\ KeyModels(t.api_key_models, k.id) = {}}
MmuDeactivateOrphans(t) ==
    [t EXCEPT !.api_keys =
        {IF k \in MmuOrphanedKeyRows(t) THEN [k EXCEPT !.isActive = FALSE] ELSE k :
            k \in t.api_keys}]

MmuInsertAudit(t, modelId, success) ==
    [t EXCEPT !.audit_logs =
        Append(t.audit_logs,
               AuditRow("none", "MODEL_MARKED_UNAVAILABLE_WITH_CASCADE", "MODEL",
                        modelId, success))]

StartMarkModelUnavailable(r) ==
    \E modelId \in Models :
        /\ Admit(r, [IdleReq EXCEPT !.op = "markModelUnavailable",
                                    !.pc = "mmu_connect", !.modelId = modelId])
        /\ DbUnchanged
        /\ UNCHANGED <<proxyKeys, nextId>>

\* A statement of the transaction either runs or throws into the catch block.
MmuThrow(r, at) ==
    /\ Set(r, [req[r] EXCEPT !.pc = "mmu_rollback", !.error = "Database",
                             !.failedAt = at])
    /\ DbUnchanged
    /\ UNCHANGED <<proxyKeys, nextId, calls>>

MmuStep(r, pc, t) ==
    /\ Set(r, [req[r] EXCEPT !.pc = pc, !.tx = t])
    /\ DbUnchanged
    /\ UNCHANGED <<proxyKeys, nextId, calls>>

\* const client = await this.fastify.pg.connect(): outside the try block.
MmuConnect(r) ==
    /\ req[r].pc = "mmu_connect"
    /\ \/ MmuStep(r, "mmu_begin", req[r].tx)
       \/ /\ Set(r, [req[r] EXCEPT !.pc = "done", !.error = "Database",
                                   !.failedAt = "mmu_connect"])
          /\ DbUnchanged
          /\ UNCHANGED <<proxyKeys, nextId, calls>>

MmuBegin(r) ==
    /\ req[r].pc = "mmu_begin"
    /\ \/ MmuStep(r, "mmu_model", Tables)
       \/ MmuThrow(r, "mmu_begin")

\* Step 1, and the early COMMIT and return when no row was updated.
MmuModel(r) ==
    /\ req[r].pc = "mmu_model"
    /\ \/ IF MmuModelRows(req[r].tx, req[r].modelId) = {}
            THEN MmuStep(r, "mmu_commit_skip", req[r].tx)
            ELSE MmuStep(r, "mmu_subscriptions", MmuUpdateModel(req[r].tx, req[r].modelId))
       \/ MmuThrow(r, "mmu_model")

MmuCommitSkip(r) ==
    /\ req[r].pc = "mmu_commit_skip"
    /\ \/ /\ Commit(req[r].tx)
          /\ Set(r, [req[r] EXCEPT !.pc = "done"])
          /\ UNCHANGED <<proxyKeys, nextId, calls>>
       \/ MmuThrow(r, "mmu_commit_skip")

\* (mutant: step 2 runs through the pool instead of the transaction's client)
MmuSubscriptionsViaPool(r) ==
    /\ req[r].pc = "mmu_subscriptions"
    /\ \/ /\ subscriptions' = MmuUpdateSubscriptions(Tables, req[r].modelId).subscriptions
          /\ Set(r, [req[r] EXCEPT
                !.pc = "mmu_associations",
                !.tx = MmuUpdateSubscriptions(req[r].tx, req[r].modelId),
                !.cascadeResult.subscriptionsDeactivated =
                    Cardinality(MmuSubscriptionRows(req[r].tx, req[r].modelId))])
          /\ UNCHANGED <<models, api_keys, api_key_models, audit_logs,
                         proxyKeys, nextId, calls>>
       \/ MmuThrow(r, "mmu_subscriptions")

\* Step 2.
MmuSubscriptions(r) ==
    /\ req[r].pc = "mmu_subscriptions"
    /\ \/ /\ Set(r, [req[r] EXCEPT
                !.pc = "mmu_associations",
                !.tx = MmuUpdateSubscriptions(req[r].tx, req[r].modelId),
                !.cascadeResult.subscriptionsDeactivated =
                    Cardinality(MmuSubscriptionRows(req[r].tx, req[r].modelId))])
          /\ DbUnchanged
          /\ UNCHANGED <<proxyKeys, nextId, calls>>
       \/ MmuThrow(r, "mmu_subscriptions")

\* Step 3.
MmuAssociations(r) ==
    /\ req[r].pc = "mmu_associations"
    /\ \/ /\ Set(r, [req[r] EXCEPT
                !.pc = "mmu_orphans",
                !.tx = MmuDeleteAssociations(req[r].tx, req[r].modelId),
                !.cascadeResult.apiKeyModelAssociationsRemoved =
                    Cardinality(MmuAssociationRows(req[r].tx, req[r].modelId))])
          /\ DbUnchanged
          /\ UNCHANGED <<proxyKeys, nextId, calls>>
       \/ MmuThrow(r, "mmu_associations")

\* Step 4.
MmuOrphans(r) ==
    /\ req[r].pc = "mmu_orphans"
    /\ \/ /\ Set(r, [req[r] EXCEPT
                !.pc = "mmu_audit",
                !.tx = MmuDeactivateOrphans(req[r].tx),
                !.cascadeResult.orphanedApiKeysDeactivated =
                    Cardinality(MmuOrphanedKeyRows(req[r].tx))])
          /\ DbUnchanged
          /\ UNCHANGED <<proxyKeys, nextId, calls>>
       \/ MmuThrow(r, "mmu_orphans")

\* Step 5.
MmuAudit(r) ==
    /\ req[r].pc = "mmu_audit"
    /\ \/ MmuStep(r, "mmu_commit", MmuInsertAudit(req[r].tx, req[r].modelId, TRUE))
       \/ MmuThrow(r, "mmu_audit")

MmuCommit(r) ==
    /\ req[r].pc = "mmu_commit"
    /\ \/ /\ Commit(req[r].tx)
          /\ Set(r, [req[r] EXCEPT !.pc = "done"])
          /\ UNCHANGED <<proxyKeys, nextId, calls>>
       \/ MmuThrow(r, "mmu_commit")

\* catch: ROLLBACK.  The uncommitted writes are dropped either way; when the
\* ROLLBACK statement itself throws, the failure audit is skipped.
MmuRollback(r) ==
    /\ req[r].pc = "mmu_rollback"
    /\ \E ok \in BOOLEAN :
        Set(r, [req[r] EXCEPT !.pc = IF ok THEN "mmu_failure_audit" ELSE "done",
                              !.tx = NoTables,
                              !.cascadeResult = ZeroCascade])
    /\ DbUnchanged
    /\ UNCHANGED <<proxyKeys, nextId, calls>>

\* catch: best-effort failure audit through the pool, then throw error.
MmuFailureAudit(r) ==
    /\ req[r].pc = "mmu_failure_audit"
    /\ \/ audit_logs' = MmuInsertAudit(Tables, req[r].modelId, FALSE).audit_logs
       \/ UNCHANGED audit_logs
    /\ Set(r, [req[r] EXCEPT !.pc = "done"])
    /\ UNCHANGED <<models, subscriptions, api_keys, api_key_models,
                   proxyKeys, nextId, calls>>

MarkModelUnavailable(r) ==
    \/ MmuConnect(r)
    \/ MmuBegin(r)
    \/ MmuModel(r)
    \/ MmuCommitSkip(r)
    \/ MmuSubscriptions(r)
    \/ MmuAssociations(r)
    \/ MmuOrphans(r)
    \/ MmuAudit(r)
    \/ MmuCommit(r)
    \/ MmuRollback(r)
    \/ MmuFailureAudit(r)

\* ------------------------------------------- ApiKeyService.createApiKey

\* A step of a handler that changes nothing but the call's own frame.
Local(r, rec) ==
    /\ Set(r, rec)
    /\ DbUnchanged
    /\ UNCHANGED <<proxyKeys, nextId, calls>>

\* throw: the error propagates to the caller (the outer catch logs and rethrows).
Throw(r, kind, at) ==
    Local(r, [req[r] EXCEPT !.pc = "done", !.error = kind, !.failedAt = at])

\* SELECT model_id, status FROM subscriptions WHERE id = $1 AND user_id = $2
CakLegacySubscription(t, subscriptionId, userId) ==
    {s \in t.subscriptions : s.id = subscriptionId /\ s.userId = userId}

\* SELECT DISTINCT s.model_id ... FROM subscriptions s JOIN models m ON s.model_id = m.id
\*  WHERE s.user_id = $1 AND s.status = 'active' AND s.model_id = ANY($2)
\* (mutant: the query without "s.user_id = $1")
CakValidModelIdsAnyUser(t, userId, modelIds) ==
    {s.modelId : s \in {x \in t.subscriptions :
                            x.status = "active" /\ x.modelId \in modelIds}}
CakValidModelIds(t, userId, modelIds) ==
    {s.modelId : s \in {x \in t.subscriptions :
                            /\ x.userId = userId
                            /\ x.status = "active"
                            /\ x.modelId \in modelIds
                            /\ x.modelId \in DOMAIN t.models}}

\* modelIds.filter((id) => !validModelIds.includes(id))
CakInvalidModels(t, userId, modelIds) ==
    modelIds \ CakValidModelIds(t, userId, modelIds)

\* parseInt(count) >= maxKeysPerUser over
\* SELECT COUNT(*) FROM api_keys WHERE user_id = $1 AND is_active = true
\* (mutant: ">" instead of ">=")
CakLimitReachedOffByOne(t, userId) ==
    ActiveKeyCount(t.api_keys, userId) > maxKeysPerUser
CakLimitReached(t, userId) == ActiveKeyCount(t.api_keys, userId) >= maxKeysPerUser

\* INSERT INTO api_keys (..., key_hash, ..., is_active, lite_llm_key_value, ...)
\* (mutant: key_hash is the digest of a key from the local generateApiKey())
CakNewKeyRowLocalHash(id, userId, key, subscriptionId) ==
    KeyRow(id, userId, TRUE, hashApiKey(Secret("local", id)), key, subscriptionId)
CakNewKeyRow(id, userId, key, subscriptionId) ==
    KeyRow(id, userId, TRUE, hashApiKey(key), key, subscriptionId)

\* key_hash is UNIQUE.
CakCanInsertKey(t, row) == \A k \in t.api_keys : k.keyHash # row.keyHash

\* The request is either the multi-model shape {modelIds} or the legacy shape
\* {subscriptionId}.  A repeated id in modelIds makes the second INSERT into
\* api_key_models fail on the primary key: one of the failures of CakInsertModels.
StartCreateApiKey(r) ==
    \E userId \in Users :
        /\ \/ \E modelIds \in SUBSET Models :
                Admit(r, [IdleReq EXCEPT !.op = "createApiKey", !.pc = "cak_request",
                                         !.userId = userId, !.modelIds = modelIds])
           \/ \E subscriptionId \in {1, 2, 9} :
                Admit(r, [IdleReq EXCEPT !.op = "createApiKey", !.pc = "cak_request",
                                         !.userId = userId,
                                         !.subscriptionId = subscriptionId])
        /\ DbUnchanged
        /\ UNCHANGED <<proxyKeys, nextId>>

\* Normalise the request to a list of model ids.
CakRequest(r) ==
    /\ req[r].pc = "cak_request"
    /\ IF req[r].subscriptionId # NoSub
         THEN LET found == CakLegacySubscription(Tables, req[r].subscriptionId,
                                                 req[r].userId)
              IN \/ Throw(r, "Database", "cak_request")
                 \/ /\ found = {}
                    /\ Throw(r, "NotFound", "cak_request")
                 \/ \E s \in found :
                        IF s.status # "active"
                          THEN Throw(r, "Validation", "cak_request")
                          ELSE Local(r, [req[r] EXCEPT !.pc = "cak_ensure",
                                                       !.modelIds = {s.modelId}])
         ELSE IF req[r].modelIds = {}
                THEN Throw(r, "Validation", "cak_request")
                ELSE Local(r, [req[r] EXCEPT !.pc = "cak_ensure"])

\* LiteLLMSyncUtils.ensureTeamExistsInLiteLLM / ensureUserExistsInLiteLLM:
\* lazy provisioning in the proxy, which fails the call when the proxy does.
CakEnsure(r) ==
    /\ req[r].pc = "cak_ensure"
    /\ \/ Local(r, [req[r] EXCEPT !.pc = "cak_validate"])
       \/ Throw(r, "Upstream", "cak_ensure")

CakValidateOutcome(r, invalidModels) ==
    IF invalidModels # {}
      THEN Local(r, [req[r] EXCEPT !.pc = "done", !.error = "Validation",
                                   !.failedAt = "cak_validate",
                                   !.named = invalidModels])
      ELSE Local(r, [req[r] EXCEPT !.pc = "cak_limit"])

\* Every requested model needs an active subscription of the user.
CakValidate(r) ==
    /\ req[r].pc = "cak_validate"
    /\ \/ CakValidateOutcome(r, CakInvalidModels(Tables, req[r].userId, req[r].modelIds))
       \/ Throw(r, "Database", "cak_validate")

CakLimitOutcome(r, reached) ==
    IF reached
      THEN Throw(r, "Validation", "cak_limit")
      ELSE Local(r, [req[r] EXCEPT !.pc = "cak_generate"])

\* At most maxKeysPerUser active keys per user.
CakLimit(r) ==
    /\ req[r].pc = "cak_limit"
    /\ \/ CakLimitOutcome(r, CakLimitReached(Tables, req[r].userId))
       \/ Throw(r, "Database", "cak_limit")

\* liteLLMService.generateApiKey: the proxy issues the secret; it may fail, or
\* answer without a key.
CakGenerate(r) ==
    /\ req[r].pc = "cak_generate"
    /\ \/ /\ proxyKeys' = proxyKeys \cup {Secret("litellm", nextId)}
          /\ nextId' = nextId + 1
          /\ Set(r, [req[r] EXCEPT !.pc = "cak_connect",
                                   !.key = Secret("litellm", nextId)])
          /\ DbUnchanged
          /\ UNCHANGED calls
       \/ Throw(r, "Upstream", "cak_generate")
       \/ Throw(r, "NotFound", "cak_generate")

\* const client = await this.fastify.pg.connect(): after the proxy call and
\* before the inner try, so a failure reaches only the outer catch.
CakConnectFailed(r) == Throw(r, "Database", "cak_connect")

CakConnect(r) ==
    /\ req[r].pc = "cak_connect"
    /\ \/ Local(r, [req[r] EXCEPT !.pc = "cak_begin"])
       \/ CakConnectFailed(r)

\* A statement of the transaction throws into the inner catch.
CakThrow(r, at) ==
    Local(r, [req[r] EXCEPT !.pc = "cak_rollback", !.error = "Database",
                            !.failedAt = at])

CakBegin(r) ==
    /\ req[r].pc = "cak_begin"
    /\ \/ Local(r, [req[r] EXCEPT !.pc = "cak_insert_key", !.tx = Tables])
       \/ CakThrow(r, "cak_begin")

CakInsertKey(r) ==
    /\ req[r].pc = "cak_insert_key"
    /\ LET row == CakNewKeyRow(nextId, req[r].userId, req[r].key, req[r].subscriptionId)
       IN \/ /\ CakCanInsertKey(req[r].tx, row)
             /\ nextId' = nextId + 1
             /\ Set(r, [req[r] EXCEPT
                    !.pc = "cak_insert_models",
                    !.newKeyId = nextId,
                    !.tx = [req[r].tx EXCEPT !.api_keys = @ \cup {row}]])
             /\ DbUnchanged
             /\ UNCHANGED <<proxyKeys, calls>>
          \/ CakThrow(r, "cak_insert_key")

\* for (const modelId of modelIds) INSERT INTO api_key_models
CakInsertModels(r) ==
    /\ req[r].pc = "cak_insert_models"
    /\ \/ Local(r, [req[r] EXCEPT
                !.pc = "cak_audit",
                !.tx = [req[r].tx EXCEPT !.api_key_models =
                            @ \cup ({req[r].newKeyId} \X req[r].modelIds)]])
       \/ CakThrow(r, "cak_insert_models")

CakAudit(r) ==
    /\ req[r].pc = "cak_audit"
    /\ \/ Local(r, [req[r] EXCEPT
                !.pc = "cak_commit",
                !.tx = [req[r].tx EXCEPT !.audit_logs =
                            Append(@, AuditRow(req[r].userId, "API_KEY_CREATE",
                                               "API_KEY", req[r].newKeyId, TRUE))]])
       \/ CakThrow(r, "cak_audit")

\* COMMIT, then the key is returned with its secret.
CakCommit(r) ==
    /\ req[r].pc = "cak_commit"
    /\ \/ /\ Commit(req[r].tx)
          /\ Set(r, [req[r] EXCEPT !.pc = "done"])
          /\ UNCHANGED <<proxyKeys, nextId, calls>>
       \/ CakThrow(r, "cak_commit")

\* catch: ROLLBACK; when it throws, the rest of the catch block is skipped.
CakRollback(r) ==
    /\ req[r].pc = "cak_rollback"
    /\ \E ok \in BOOLEAN :
        Local(r, [req[r] EXCEPT !.pc = IF ok THEN "cak_cleanup" ELSE "done",
                                !.tx = NoTables, !.newKeyId = NoKey])

\* catch: best-effort liteLLMService.deleteKey(liteLLMResponse.key); a failure
\* is logged and the original error is thrown.
CakCleanup(r) ==
    /\ req[r].pc = "cak_cleanup"
    /\ \/ /\ proxyKeys' = proxyKeys \ {req[r].key}
          /\ Set(r, [req[r] EXCEPT !.pc = "done", !.cleanup = "deleted"])
       \/ /\ UNCHANGED proxyKeys
          /\ Set(r, [req[r] EXCEPT !.pc = "done", !.cleanup = "failed"])
    /\ DbUnchanged
    /\ UNCHANGED <<nextId, calls>>

CreateApiKey(r) ==
    \/ CakRequest(r)
    \/ CakEnsure(r)
    \/ CakValidate(r)
    \/ CakLimit(r)
    \/ CakGenerate(r)
    \/ CakConnect(r)
    \/ CakBegin(r)
    \/ CakInsertKey(r)
    \/ CakInsertModels(r)
    \/ CakAudit(r)
    \/ CakCommit(r)
    \/ CakRollback(r)
    \/ CakCleanup(r)

\* ------------------------------------------- ApiKeyService.rotateApiKey

\* getApiKey: SELECT ak.* FROM api_keys ak WHERE ak.id = $1 AND ak.user_id = $2
GetApiKey(t, keyId, userId) ==
    {k \in t.api_keys : k.id = keyId /\ k.userId = userId}

\* UPDATE api_keys SET key_hash = $1, key_prefix = $2, lite_llm_key_value = $3
\*  WHERE id = $4
RotUpdateLiteLLM(t, keyId, newKey) ==
    [t EXCEPT !.api_keys =
        {IF k.id = keyId
            THEN [k EXCEPT !.keyHash = hashApiKey(newKey), !.liteLLMKeyValue = newKey]
            ELSE k : k \in t.api_keys}]

\* UPDATE api_keys SET key_hash = $1, key_prefix = $2 WHERE id = $3
\* with the digest of a key from generateApiKey() (randomBytes).
RotUpdateLocal(t, keyId, localKey) ==
    [t EXCEPT !.api_keys =
        {IF k.id = keyId THEN [k EXCEPT !.keyHash = hashApiKey(localKey)] ELSE k :
            k \in t.api_keys}]

StartRotateApiKey(r) ==
    \E keyId \in {1, 11, 21}, userId \in Users :
        /\ Admit(r, [IdleReq EXCEPT !.op = "rotateApiKey", !.pc = "rot_get",
                                    !.keyId = keyId, !.userId = userId])
        /\ DbUnchanged
        /\ UNCHANGED <<proxyKeys, nextId>>

\* const existingKey = await this.getApiKey(keyId, userId); the frame keeps
\* existingKey.liteLLMKeyId in key until the new key is known.
RotGet(r) ==
    /\ req[r].pc = "rot_get"
    /\ LET found == GetApiKey(Tables, req[r].keyId, req[r].userId)
       IN \/ Throw(r, "Database", "rot_get")
          \/ /\ found = {}
             /\ Throw(r, "NotFound", "rot_get")
          \/ \E k \in found :
                Local(r, [req[r] EXCEPT !.pc = "rot_begin",
                                        !.key = k.liteLLMKeyValue])

\* A statement of the transaction throws out of the callback.
RotThrow(r, at) ==
    Local(r, [req[r] EXCEPT !.pc = "rot_rollback", !.error = "Database",
                            !.failedAt = at])

\* dbUtils.withTransaction: BEGIN, then the callback.
RotBegin(r) ==
    /\ req[r].pc = "rot_begin"
    /\ \/ Local(r, [req[r] EXCEPT
                !.pc = IF req[r].key # NoSecret THEN "rot_delete" ELSE "rot_local",
                !.tx = Tables])
       \/ RotThrow(r, "rot_begin")

\* try: liteLLMService.deleteKey(existingKey.liteLLMKeyId)
RotDelete(r) ==
    /\ req[r].pc = "rot_delete"
    /\ \/ /\ proxyKeys' = proxyKeys \ {req[r].key}
          /\ Set(r, [req[r] EXCEPT !.pc = "rot_generate"])
       \/ /\ UNCHANGED proxyKeys
          /\ Set(r, [req[r] EXCEPT !.pc = "rot_fallback", !.failedAt = "rot_delete"])
    /\ DbUnchanged
    /\ UNCHANGED <<nextId, calls>>

\* try: liteLLMService.generateApiKey; no key in the answer throws as well.
RotGenerate(r) ==
    /\ req[r].pc = "rot_generate"
    /\ \/ /\ proxyKeys' = proxyKeys \cup {Secret("litellm", nextId)}
          /\ nextId' = nextId + 1
          /\ Set(r, [req[r] EXCEPT !.pc = "rot_update",
                                   !.key = Secret("litellm", nextId)])
          /\ DbUnchanged
          /\ UNCHANGED calls
       \/ Local(r, [req[r] EXCEPT !.pc = "rot_fallback", !.failedAt = "rot_generate"])

\* try: the UPDATE with the proxy's key.  When the statement fails the
\* transaction is aborted, so the UPDATE of the catch block fails in turn and
\* throws out of the callback.
RotUpdate(r) ==
    /\ req[r].pc = "rot_update"
    /\ \/ Local(r, [req[r] EXCEPT
                !.pc = "rot_audit",
                !.tx = RotUpdateLiteLLM(req[r].tx, req[r].keyId, req[r].key)])
       \/ RotThrow(r, "rot_update")

\* The new key generated locally and the UPDATE that stores its digest.
RotLocalKey(r, at) ==
    /\ \/ /\ nextId' = nextId + 1
          /\ Set(r, [req[r] EXCEPT
                !.pc = "rot_audit",
                !.key = Secret("local", nextId),
                !.tx = RotUpdateLocal(req[r].tx, req[r].keyId, Secret("local", nextId))])
          /\ DbUnchanged
          /\ UNCHANGED <<proxyKeys, calls>>
       \/ RotThrow(r, at)

\* catch: 'Failed to rotate key in LiteLLM, proceeding with local rotation only'.
RotFallback(r) ==
    /\ req[r].pc = "rot_fallback"
    /\ RotLocalKey(r, "rot_fallback")

\* else: the key has no lite_llm_key_value.
RotLocal(r) ==
    /\ req[r].pc = "rot_local"
    /\ RotLocalKey(r, "rot_local")

RotAudit(r) ==
    /\ req[r].pc = "rot_audit"
    /\ \/ Local(r, [req[r] EXCEPT
                !.pc = "rot_commit",
                !.tx = [req[r].tx EXCEPT !.audit_logs =
                            Append(@, AuditRow(req[r].userId, "API_KEY_ROTATE",
                                               "API_KEY", req[r].keyId, TRUE))]])
       \/ RotThrow(r, "rot_audit")

\* dbUtils.withTransaction: COMMIT, and the callback's value is returned.
RotCommit(r) ==
    /\ req[r].pc = "rot_commit"
    /\ \/ /\ Commit(req[r].tx)
          /\ Set(r, [req[r] EXCEPT !.pc = "done"])
          /\ UNCHANGED <<proxyKeys, nextId, calls>>
       \/ RotThrow(r, "rot_commit")

\* dbUtils.withTransaction: ROLLBACK, and the error is thrown.
RotRollback(r) ==
    /\ req[r].pc = "rot_rollback"
    /\ Local(r, [req[r] EXCEPT !.pc = "done", !.tx = NoTables])

RotateApiKey(r) ==
    \/ RotGet(r)
    \/ RotBegin(r)
    \/ RotDelete(r)
    \/ RotGenerate(r)
    \/ RotUpdate(r)
    \/ RotFallback(r)
    \/ RotLocal(r)
    \/ RotAudit(r)
    \/ RotCommit(r)
    \/ RotRollback(r)

\* ---------------------------------------------------------- specification

\* The proxy's model lists are not followed by the calls of Spec.
ProxyListsUnchanged == UNCHANGED <<proxyKeyModels, proxyModels>>

\* The status history, the breaker and the clock, which the operations on
\* keys and models leave alone.
OthersUnchanged ==
    UNCHANGED <<subscription_status_history, circuitBreaker, clock, cache>>

Next ==
    \E r \in Serving :
        \/ Quiet /\ StartMarkModelUnavailable(r) /\ ProxyListsUnchanged /\ OthersUnchanged
        \/ MarkModelUnavailable(r) /\ ProxyListsUnchanged /\ OthersUnchanged
        \/ Quiet /\ StartCreateApiKey(r) /\ ProxyListsUnchanged /\ OthersUnchanged
        \/ CreateApiKey(r) /\ ProxyListsUnchanged /\ OthersUnchanged
        \/ Quiet /\ StartRotateApiKey(r) /\ ProxyListsUnchanged /\ OthersUnchanged
        \/ RotateApiKey(r) /\ ProxyListsUnchanged /\ OthersUnchanged
        \/ Finish(r) /\ ProxyListsUnchanged /\ OthersUnchanged

Spec == Init /\ [][Next]_vars

\* ------------------------------------------------------------ properties

Done(r, op) == req[r].op = op /\ req[r].pc = "done"

\* markModelUnavailable(M) has committed its cascade for a model that was
\* available when it was called.
MmuCascaded(r) ==
    /\ Done(r, "markModelUnavailable")
    /\ req[r].error = "none"
    /\ req[r].pre.models[req[r].modelId].availability = "available"

\* The rows of the four data tables (the audit log aside).
Data(t) == <<t.models, t.subscriptions, t.api_keys, t.api_key_models>>

\* C1: after markModelUnavailable(M) commits for an available model M, every
\* subscription on M that was active before the call is inactive, and no
\* subscription on M is active.
C1_SubscriptionsInactive ==
    \A r \in Reqs :
        MmuCascaded(r) =>
            /\ \A s \in req[r].pre.subscriptions :
                (s.modelId = req[r].modelId /\ s.status = "active")
                    => [s EXCEPT !.status = "inactive"] \in subscriptions
            /\ \A s \in subscriptions :
                s.modelId = req[r].modelId => s.status # "active"

C1_Witness ==
    \E r \in Reqs :
        /\ MmuCascaded(r)
        /\ \E s \in req[r].pre.subscriptions :
            s.modelId = req[r].modelId /\ s.status = "active"
        /\ \E s \in req[r].pre.subscriptions :
            s.modelId # req[r].modelId /\ s.status = "active"

\* C2: after markModelUnavailable(M) commits for an available model M, every
\* API key that has no model association is inactive.
C2_OrphanedKeysInactive ==
    \A r \in Reqs :
        MmuCascaded(r) =>
            \A k \in api_keys :
                KeyModels(api_key_models, k.id) = {} => ~k.isActive

C2_Witness ==
    \E r \in Reqs :
        /\ MmuCascaded(r)
        /\ \E k \in req[r].pre.api_keys :
            /\ k.isActive
            /\ KeyModels(req[r].pre.api_key_models, k.id) = {req[r].modelId}
            /\ [k EXCEPT !.isActive = FALSE] \in api_keys
        /\ \E k \in api_keys : k.isActive

\* C3: after markModelUnavailable(M) commits for an available model M, no
\* api_key_models row references M.
C3_NoAssociationLeft ==
    \A r \in Reqs :
        MmuCascaded(r) => \A row \in api_key_models : row[2] # req[r].modelId

C3_Witness ==
    \E r \in Reqs :
        /\ MmuCascaded(r)
        /\ \E row \in req[r].pre.api_key_models : row[2] = req[r].modelId
        /\ \E row \in api_key_models : row[2] # req[r].modelId

\* C4: markModelUnavailable(M) called when M is already unavailable changes no
\* model, subscription, association or key and writes no audit record of a
\* performed cascade; when it returns, it returns zero counts and the store,
\* audit log included, is as it was.
C4_SecondCallNoCascade ==
    \A r \in Reqs :
        (/\ Done(r, "markModelUnavailable")
         /\ req[r].pre.models[req[r].modelId].availability = "unavailable")
            => /\ Data(Tables) = Data(req[r].pre)
               /\ \A i \in DOMAIN audit_logs :
                    i > Len(req[r].pre.audit_logs) => ~audit_logs[i].success
               /\ req[r].error = "none"
                    => /\ audit_logs = req[r].pre.audit_logs
                       /\ req[r].cascadeResult = ZeroCascade

\* The second call returns, after a first call that did cascade.
C4_Witness ==
    \E r \in Reqs :
        /\ Done(r, "markModelUnavailable")
        /\ req[r].pre.models[req[r].modelId].availability = "unavailable"
        /\ req[r].error = "none"
        /\ \E i \in DOMAIN audit_logs :
            /\ audit_logs[i].action = "MODEL_MARKED_UNAVAILABLE_WITH_CASCADE"
            /\ audit_logs[i].resourceId = req[r].modelId
            /\ audit_logs[i].success

\* The store after the whole cascade for modelId: the model unavailable, no
\* active subscription and no association on it, no active key without models.
FullyCascaded(modelId) ==
    /\ models[modelId].availability = "unavailable"
    /\ \A s \in subscriptions : s.modelId = modelId => s.status # "active"
    /\ \A row \in api_key_models : row[2] # modelId
    /\ \A k \in api_keys : KeyModels(api_key_models, k.id) = {} => ~k.isActive

\* C5: a markModelUnavailable(M) call in which a step failed throws and leaves
\* the committed store as it was before the call; at every moment of the call
\* the committed store is either the one before the call or the fully cascaded
\* one, never one with M unavailable and the cascade partly applied.
C5_RollbackOnFailure ==
    \A r \in Reqs :
        req[r].op = "markModelUnavailable" =>
            /\ req[r].failedAt # "none" => req[r].error # "none"
            /\ (req[r].error # "none" \/ req[r].pc # "done")
                    => Data(Tables) = Data(req[r].pre)
            /\ Data(Tables) = Data(req[r].pre) \/ FullyCascaded(req[r].modelId)

\* A late step (the orphaned-key update or the audit insert) failed after the
\* earlier steps had changed rows inside the transaction.
C5_Witness ==
    \E r \in Reqs :
        /\ Done(r, "markModelUnavailable")
        /\ req[r].error # "none"
        /\ req[r].failedAt \in {"mmu_orphans", "mmu_audit", "mmu_commit"}
        /\ \E s \in req[r].pre.subscriptions :
            s.modelId = req[r].modelId /\ s.status = "active"
        /\ \E row \in req[r].pre.api_key_models : row[2] = req[r].modelId

\* C6: after rotateApiKey returns successfully, the stored key_hash of the
\* rotated key is the sha256 digest of its stored lite_llm_key_value (stated
\* for the keys that have one).
C6_RotatedHashMatches ==
    \A r \in Reqs :
        (Done(r, "rotateApiKey") /\ req[r].error = "none")
            => \A k \in api_keys :
                (k.id = req[r].keyId /\ k.liteLLMKeyValue # NoSecret)
                    => k.keyHash = hashApiKey(k.liteLLMKeyValue)

\* C7: after a successful createApiKey the new row's key_hash is the digest of
\* the secret the proxy issued in this call, which is the row's
\* lite_llm_key_value and the key returned; it is not a locally generated key.
C7_CreatedHashOfProxySecret ==
    \A r \in Reqs :
        (Done(r, "createApiKey") /\ req[r].error = "none")
            => /\ req[r].key.src = "litellm"
               /\ req[r].key \in proxyKeys \ req[r].preProxy
               /\ \E k \in api_keys \ req[r].pre.api_keys :
                    /\ k.id = req[r].newKeyId
                    /\ k.liteLLMKeyValue = req[r].key
                    /\ k.keyHash = hashApiKey(req[r].key)

C7_Witness ==
    \E r \in Reqs :
        /\ Done(r, "createApiKey")
        /\ req[r].error = "none"
        /\ \E k \in api_keys : k.id = req[r].newKeyId /\ k.userId = req[r].userId

\* The requested model ids for which the user had no active subscription when
\* createApiKey was called.
Lacking(r) ==
    {m \in req[r].modelIds :
        ~\E s \in req[r].pre.subscriptions :
            s.userId = req[r].userId /\ s.modelId = m /\ s.status = "active"}

\* C8: createApiKey(userId, {modelIds}) with a model id that lacks an active
\* subscription of userId never succeeds, creates no api_keys or api_key_models
\* row and has no key issued by the proxy; the error it raises is the
\* Validation error naming exactly the lacking model ids, unless the proxy
\* provisioning that precedes the check or the check's own query failed first.
C8_RejectsLackingSubscription ==
    \A r \in Reqs :
        (/\ Done(r, "createApiKey")
         /\ req[r].subscriptionId = NoSub
         /\ Lacking(r) # {})
            => /\ req[r].error # "none"
               /\ api_keys = req[r].pre.api_keys
               /\ api_key_models = req[r].pre.api_key_models
               /\ proxyKeys = req[r].preProxy
               /\ \/ req[r].error = "Validation" /\ req[r].named = Lacking(r)
                  \/ req[r].error = "Upstream" /\ req[r].failedAt = "cak_ensure"
                  \/ req[r].error = "Database" /\ req[r].failedAt = "cak_validate"

\* One of two requested models lacks the subscription and is the one named.
C8_Witness ==
    \E r \in Reqs :
        /\ Done(r, "createApiKey")
        /\ req[r].subscriptionId = NoSub
        /\ Lacking(r) # {}
        /\ req[r].modelIds \ Lacking(r) # {}
        /\ req[r].error = "Validation"
        /\ req[r].named = Lacking(r)

\* C9: createApiKey for a user who already holds maxKeysPerUser active keys
\* fails before any key is issued or stored, with the Validation error of the
\* limit check once the call gets that far; a successful createApiKey adds one
\* active key and leaves the user with at most maxKeysPerUser.
C9_KeyCeiling ==
    \A r \in Reqs :
        Done(r, "createApiKey") =>
            /\ ActiveKeyCount(req[r].pre.api_keys, req[r].userId) >= maxKeysPerUser
                => /\ req[r].error # "none"
                   /\ api_keys = req[r].pre.api_keys
                   /\ proxyKeys = req[r].preProxy
                   /\ req[r].failedAt \in
                        {"cak_request", "cak_ensure", "cak_validate", "cak_limit"}
                   /\ req[r].failedAt = "cak_limit"
                        => req[r].error \in {"Validation", "Database"}
            /\ req[r].error = "none"
                => /\ ActiveKeyCount(api_keys, req[r].userId) <= maxKeysPerUser
                   /\ ActiveKeyCount(api_keys, req[r].userId)
                        = ActiveKeyCount(req[r].pre.api_keys, req[r].userId) + 1

\* The limit check itself rejects a request whose models are all subscribed.
C9_Witness ==
    \E r \in Reqs :
        /\ Done(r, "createApiKey")
        /\ ActiveKeyCount(req[r].pre.api_keys, req[r].userId) = maxKeysPerUser
        /\ req[r].failedAt = "cak_limit"
        /\ req[r].error = "Validation"

\* C10: a createApiKey that fails after the proxy issued the key has attempted
\* to delete that key at the proxy, so the key is still accepted by the proxy
\* only if that deletion failed.
C10_CleanupAttempted ==
    \A r \in Reqs :
        (/\ Done(r, "createApiKey")
         /\ req[r].error # "none"
         /\ req[r].key # NoSecret)
            => /\ req[r].cleanup # "none"
               /\ req[r].key \in proxyKeys => req[r].cleanup = "failed"

\* ------------------------- ApiKeyService.removeModelFromUserApiKeys

\* SELECT DISTINCT ak.id, ak.lite_llm_key_value FROM api_keys ak
\*  JOIN api_key_models akm ON ak.id = akm.api_key_id
\*  WHERE ak.user_id = $1 AND akm.model_id = $2 AND ak.is_active = true
\* (mutant: the SELECT returns no row)
RmApiKeysNone(t, userId, modelId) == {}
RmApiKeys(t, userId, modelId) ==
    {k \in t.api_keys :
        k.userId = userId /\ k.isActive /\ <<k.id, modelId>> \in t.api_key_models}

\* SELECT model_id FROM api_key_models WHERE api_key_id = $1 AND model_id != $2
\* (mutant: the WHERE clause without "AND model_id != $2")
RmRemainingModelsAll(t, keyId, modelId) == KeyModels(t.api_key_models, keyId)
RmRemainingModels(t, keyId, modelId) ==
    KeyModels(t.api_key_models, keyId) \ {modelId}

\* LiteLLMService.updateKey(key, {models}): POST /key/update replaces the
\* allowed models of the key at the proxy.
UpdateKey(pkm, key, modelIds) ==
    {row \in pkm : row[1] # key} \cup ({key} \X modelIds)

\* liteLLMUpdates.filter((u) => u.success).map((u) => u.keyId)
\* (mutant: no filter on u.success)
RmSuccessfulKeyIdsAll(liteLLMUpdates) == {u.keyId : u \in liteLLMUpdates}
RmSuccessfulKeyIds(liteLLMUpdates) ==
    {u.keyId : u \in {x \in liteLLMUpdates : x.success}}

\* DELETE FROM api_key_models WHERE api_key_id = ANY($1) AND model_id = $2
RmDeleteAssociations(akm, keyIds, modelId) ==
    akm \ {row \in akm : row[1] \in keyIds /\ row[2] = modelId}

\* The statements a removeModelFromUserApiKeys frame does not touch.
RmFrame == UNCHANGED <<models, subscriptions, api_keys, audit_logs, proxyKeys,
                       nextId, calls>>

StartRemoveModelFromUserApiKeys(r) ==
    \E userId \in Users, modelId \in Models :
        /\ Admit(r, [IdleReq EXCEPT !.op = "removeModelFromUserApiKeys",
                                    !.pc = "rm_select", !.userId = userId,
                                    !.modelId = modelId])
        /\ DbUnchanged
        /\ UNCHANGED <<proxyKeys, proxyKeyModels, nextId>>

\* The first query; it is outside any try block, so its failure propagates.
\* if (apiKeys.length === 0) return;
RmSelect(r) ==
    /\ req[r].pc = "rm_select"
    /\ LET apiKeys == RmApiKeys(Tables, req[r].userId, req[r].modelId)
       IN  \/ Set(r, [req[r] EXCEPT !.pc = "done", !.error = "Database",
                                    !.failedAt = "rm_select"])
           \/ Set(r, [req[r] EXCEPT !.pc = IF apiKeys = {} THEN "done" ELSE "rm_litellm",
                                    !.apiKeys = apiKeys])
    /\ UNCHANGED <<api_key_models, proxyKeyModels>>
    /\ RmFrame

\* STEP 1, one round of "for (const apiKey of apiKeys)": the rows come in the
\* order the SELECT returned them, which no ORDER BY fixes.  The round records
\* success when /key/update answered, and failure when the remaining-models
\* query threw, when the request was refused or did not reach the proxy, or
\* when the proxy applied it and the answer was lost (timeout).  A key without
\* lite_llm_key_value is recorded as success without a proxy call.
RmRecord(r, apiKey, success) ==
    LET rest == req[r].apiKeys \ {apiKey}
    IN  Set(r, [req[r] EXCEPT
                    !.apiKeys = rest,
                    !.liteLLMUpdates = @ \cup {[keyId |-> apiKey.id, success |-> success]},
                    !.pc = IF rest = {} THEN "rm_delete" ELSE "rm_litellm"])

RmLiteLLM(r) ==
    /\ req[r].pc = "rm_litellm"
    /\ \E apiKey \in req[r].apiKeys :
        LET remainingModels == RmRemainingModels(Tables, apiKey.id, req[r].modelId)
            updated == UpdateKey(proxyKeyModels, apiKey.liteLLMKeyValue, remainingModels)
        IN  IF apiKey.liteLLMKeyValue # NoSecret
                THEN \/ /\ apiKey.liteLLMKeyValue \in proxyKeys
                        /\ proxyKeyModels' = updated
                        /\ RmRecord(r, apiKey, TRUE)
                     \/ /\ apiKey.liteLLMKeyValue \in proxyKeys
                        /\ proxyKeyModels' = updated
                        /\ RmRecord(r, apiKey, FALSE)
                     \/ /\ UNCHANGED proxyKeyModels
                        /\ RmRecord(r, apiKey, FALSE)
                ELSE /\ UNCHANGED proxyKeyModels
                     /\ RmRecord(r, apiKey, TRUE)
    /\ UNCHANGED api_key_models
    /\ RmFrame

\* STEP 2: the one DELETE for the keys whose proxy update succeeded; it is
\* outside any try block.
RmDelete(r) ==
    /\ req[r].pc = "rm_delete"
    /\ LET successfulKeyIds == RmSuccessfulKeyIds(req[r].liteLLMUpdates)
       IN  \/ /\ successfulKeyIds # {}
              /\ Set(r, [req[r] EXCEPT !.pc = "done", !.error = "Database",
                                       !.failedAt = "rm_delete"])
              /\ UNCHANGED api_key_models
           \/ /\ Set(r, [req[r] EXCEPT !.pc = "done"])
              /\ api_key_models' =
                    RmDeleteAssociations(api_key_models, successfulKeyIds, req[r].modelId)
    /\ UNCHANGED proxyKeyModels
    /\ RmFrame

RemoveModelFromUserApiKeys(r) == RmSelect(r) \/ RmLiteLLM(r) \/ RmDelete(r)

\* The store SpecRemove starts on: u1 holds the multi-model keys 1 and 2 (key
\* 2 possibly revoked) and possibly the legacy key 11, which has no
\* lite_llm_key_value and was given models by a later update; u2 holds key 12.
\* The proxy allows each key the models of its join-table rows.
InitRemoveKeys(active2, legacy) ==
    {KeyRow(1, "u1", TRUE, hashApiKey(Secret("litellm", 1)), Secret("litellm", 1), NoSub),
     KeyRow(2, "u1", active2, hashApiKey(Secret("litellm", 2)), Secret("litellm", 2), NoSub),
     KeyRow(12, "u2", TRUE, hashApiKey(Secret("litellm", 12)), Secret("litellm", 12), NoSub)}
    \cup {KeyRow(11, "u1", TRUE, hashApiKey(Secret("local", 11)), NoSecret, 1) :
            x \in IF legacy THEN {1} ELSE {}}

InitRemove ==
    \E A1 \in SUBSET Models \ {{}}, A2 \in SUBSET Models \ {{}},
       active2 \in BOOLEAN, legacy \in BOOLEAN :
        /\ models = [m \in Models |-> ModelRow("available", FALSE, m, Null)]
        /\ subscriptions = InitSubscriptions("active", "active")
        /\ api_keys = InitRemoveKeys(active2, legacy)
        /\ api_key_models = ({1} \X A1) \cup ({2} \X A2) \cup {<<12, "m1">>}
                                \cup {<<11, "m1">> : x \in IF legacy THEN {1} ELSE {}}
        /\ audit_logs = <<>>
        /\ proxyKeys = {Secret("litellm", 1), Secret("litellm", 2), Secret("litellm", 12)}
        /\ proxyKeyModels = ({Secret("litellm", 1)} \X A1) \cup ({Secret("litellm", 2)} \X A2)
                                \cup {<<Secret("litellm", 12), "m1">>}
        /\ proxyModels = <<>>
        /\ nextId = 20
        /\ calls = 0
        /\ OthersInit
        /\ req = [r \in Reqs |-> IdleReq]

NextRemove ==
    \E r \in Serving :
        \/ Quiet /\ StartRemoveModelFromUserApiKeys(r) /\ UNCHANGED proxyModels /\ OthersUnchanged
        \/ RemoveModelFromUserApiKeys(r) /\ UNCHANGED proxyModels /\ OthersUnchanged
        \/ Finish(r) /\ ProxyListsUnchanged /\ OthersUnchanged

SpecRemove == InitRemove /\ [][NextRemove]_vars

\* The keys of the call in slot r whose proxy update succeeded / failed.
RmSucceeded(r) == {u.keyId : u \in {x \in req[r].liteLLMUpdates : x.success}}
RmFailed(r) == {u.keyId : u \in {x \in req[r].liteLLMUpdates : ~x.success}}

\* C11: the proxy never allows a key a model that the key's join-table rows
\* no longer have, and a row (K, M) that removeModelFromUserApiKeys(user, M)
\* has deleted belongs to a key whose proxy update succeeded in that call.
C11_ProxyFirst ==
    /\ \A k \in api_keys, m \in Models :
        <<k.liteLLMKeyValue, m>> \in proxyKeyModels => <<k.id, m>> \in api_key_models
    /\ \A r \in Reqs :
        req[r].op = "removeModelFromUserApiKeys" =>
            /\ \A row \in req[r].pre.api_key_models \ api_key_models :
                row[2] = req[r].modelId /\ row[1] \in RmSucceeded(r)
            /\ req[r].pc # "done" => api_key_models = req[r].pre.api_key_models

\* A call has deleted the row of a key that the proxy knows.
C11_Witness ==
    \E r \in Reqs :
        /\ Done(r, "removeModelFromUserApiKeys")
        /\ \E k \in api_keys :
            /\ k.liteLLMKeyValue \in proxyKeys
            /\ <<k.id, req[r].modelId>> \in req[r].pre.api_key_models \ api_key_models
            /\ KeyModels(api_key_models, k.id) # {}

\* C12: when removeModelFromUserApiKeys(user, M) returns, each key whose proxy
\* update failed has the join-table rows it had before the call, M included,
\* and each key whose proxy update succeeded has lost the row for M and kept
\* its other rows.
C12_PartialFailure ==
    \A r \in Reqs :
        (Done(r, "removeModelFromUserApiKeys") /\ req[r].error = "none")
            => /\ \A keyId \in RmFailed(r) :
                    /\ <<keyId, req[r].modelId>> \in api_key_models
                    /\ KeyModels(api_key_models, keyId)
                        = KeyModels(req[r].pre.api_key_models, keyId)
               /\ \A keyId \in RmSucceeded(r) :
                    KeyModels(api_key_models, keyId)
                        = KeyModels(req[r].pre.api_key_models, keyId) \ {req[r].modelId}

\* One key of the user failed at the proxy and another one succeeded.
C12_Witness ==
    \E r \in Reqs :
        /\ Done(r, "removeModelFromUserApiKeys")
        /\ req[r].error = "none"
        /\ RmFailed(r) # {}
        /\ RmSucceeded(r) # {}

\* ------------ ApiKeyService reads: getApiKey, getUserApiKeys,
\* ------------ retrieveFullKey, validateApiKey

\* isValidKeyFormat: 'sk-' followed by 64 lowercase hex digits.  The keys of
\* generateApiKey() have that shape by construction and the proxy's keys of
\* source "litellm" are taken to have it; a key of source "opaque" is a key
\* of any other shape.
\* (mutant: the format check accepts every string)
isValidKeyFormatAny(key) == TRUE
isValidKeyFormat(key) == key.src \in {"local", "litellm"}

\* expires_at && new Date(String(expires_at)) < new Date()
\* (mutant: the comparison is never true)
IsExpiredNever(apiKey, now) == FALSE
IsExpired(apiKey, now) == apiKey.expiresAt # NoExpiry /\ apiKey.expiresAt < now

\* The list view's mask: the first 8 and the last 4 characters of the key.
MaskKey(key) == [masked |-> key.src]

\* mapToEnhancedApiKey: the fields of the returned object that the store's
\* row determines; liteLLMKeyId is lite_llm_key_value itself.
mapToEnhancedApiKey(apiKey) ==
    [id |-> apiKey.id, isActive |-> apiKey.isActive,
     liteLLMKeyId |-> apiKey.liteLLMKeyValue, liteLLMKey |-> NoSecret]

\* getApiKey: SELECT ak.* FROM api_keys ak WHERE ak.id = $1 AND ak.user_id = $2;
\* the returned object carries liteLLMKey: apiKey.lite_llm_key_value.
GetApiKeyResult(t, keyId, userId) ==
    {[mapToEnhancedApiKey(k) EXCEPT !.liteLLMKey = k.liteLLMKeyValue] :
        k \in GetApiKey(t, keyId, userId)}

\* getUserApiKeys: the rows of the user, liteLLMKey masked.
GetUserApiKeysResult(t, userId) ==
    {[id |-> k.id, isActive |-> k.isActive,
      liteLLMKeyId |-> mapToEnhancedApiKey(k).liteLLMKeyId,
      liteLLMKey |-> IF k.liteLLMKeyValue # NoSecret THEN MaskKey(k.liteLLMKeyValue)
                                                      ELSE MaskKey(NoSecret)] :
        k \in {x \in t.api_keys : x.userId = userId}}

\* retrieveFullKey, up to the audit insert: the error thrown, or "none".
RetrieveFullKeyError(t, keyId, userId, now) ==
    LET found == GetApiKey(t, keyId, userId)
    IN  IF found = {} THEN "NotFound"
        ELSE LET apiKey == CHOOSE k \in found : TRUE
             IN  IF ~apiKey.isActive THEN "Validation"
                 ELSE IF IsExpired(apiKey, now) THEN "Validation"
                 ELSE IF apiKey.liteLLMKeyValue = NoSecret THEN "NotFound"
                 ELSE "none"

\* validateApiKey: SELECT ak.*, ARRAY_AGG(...) AS models FROM api_keys ak
\*  LEFT JOIN api_key_models akm ... WHERE ak.key_hash = $1 AND ak.is_active = true
ValidateApiKeyRows(t, key) ==
    {k \in t.api_keys : k.keyHash = hashApiKey(key) /\ k.isActive}

\* validateApiKey without a failing statement: {isValid, apiKey.id, error}.
ValidateApiKeyResult(t, key, now) ==
    LET rows == ValidateApiKeyRows(t, key)
        Invalid(error) == [kind |-> "validation", isValid |-> FALSE, id |-> NoKey,
                           error |-> error]
    IN  IF ~isValidKeyFormat(key) THEN Invalid("Invalid key format")
        ELSE IF rows = {} THEN Invalid("API key not found")
        ELSE LET apiKey == CHOOSE k \in rows : TRUE
                 subs == {s \in t.subscriptions : s.id = apiKey.subscriptionId}
             IN  IF IsExpired(apiKey, now) THEN Invalid("API key expired")
                 ELSE IF /\ KeyModels(t.api_key_models, apiKey.id) = {}
                         /\ apiKey.subscriptionId # NoSub
                         /\ \E s \in subs : s.status # "active"
                        THEN Invalid("Subscription is not active")
                 ELSE [kind |-> "validation", isValid |-> TRUE, id |-> apiKey.id,
                       error |-> "none"]

\* A read is served in one step: its queries see the store as it is, no other
\* call being in flight.  The frame keeps the arguments and what was returned
\* or thrown.
ReadFrame ==
    /\ DbUnchanged
    /\ UNCHANGED <<proxyKeys, proxyKeyModels, nextId>>

ReadKeyIds == {1, 2, 11, 12, 21}

\* getApiKey(keyId, userId): the query throws (logged, rethrown) or the key
\* is returned, null when there is no such row.
GetApiKeyCall(r) ==
    \E keyId \in ReadKeyIds, userId \in Users, now \in 1..MaxTime :
        LET call == [IdleReq EXCEPT !.op = "getApiKey", !.pc = "done", !.keyId = keyId,
                                    !.userId = userId, !.now = now]
        IN  /\ \/ Admit(r, [call EXCEPT !.error = "Database", !.failedAt = "get_select"])
               \/ Admit(r, [call EXCEPT !.result =
                        [kind |-> "keys", keys |-> GetApiKeyResult(Tables, keyId, userId)]])
            /\ ReadFrame

GetUserApiKeysCall(r) ==
    \E userId \in Users, now \in 1..MaxTime :
        LET call == [IdleReq EXCEPT !.op = "getUserApiKeys", !.pc = "done",
                                    !.userId = userId, !.now = now]
        IN  /\ \/ Admit(r, [call EXCEPT !.error = "Database", !.failedAt = "list_select"])
               \/ Admit(r, [call EXCEPT !.result =
                        [kind |-> "keys", keys |-> GetUserApiKeysResult(Tables, userId)]])
            /\ ReadFrame

\* retrieveFullKey(keyId, userId): the checks, the audit insert (which can
\* throw) and the returned lite_llm_key_value.  The retrieval-tracking UPDATE
\* writes no modelled column and its failure is ignored.
RetrieveFullKeyCall(r) ==
    \E keyId \in ReadKeyIds, userId \in Users, now \in 1..MaxTime :
        LET call == [IdleReq EXCEPT !.op = "retrieveFullKey", !.pc = "done",
                                    !.keyId = keyId, !.userId = userId, !.now = now]
            error == RetrieveFullKeyError(Tables, keyId, userId, now)
            apiKey == CHOOSE k \in GetApiKey(Tables, keyId, userId) : TRUE
        IN  /\ UNCHANGED <<models, subscriptions, api_keys, api_key_models>>
            /\ UNCHANGED <<proxyKeys, proxyKeyModels, nextId>>
            /\ \/ /\ Admit(r, [call EXCEPT !.error = "Database", !.failedAt = "full_select"])
                  /\ UNCHANGED audit_logs
               \/ /\ error # "none"
                  /\ Admit(r, [call EXCEPT !.error = error, !.failedAt = "full_check"])
                  /\ UNCHANGED audit_logs
               \/ /\ error = "none"
                  /\ Admit(r, [call EXCEPT !.error = "Database", !.failedAt = "full_audit"])
                  /\ UNCHANGED audit_logs
               \/ /\ error = "none"
                  /\ Admit(r, [call EXCEPT !.result =
                        [kind |-> "key", key |-> apiKey.liteLLMKeyValue]])
                  /\ audit_logs' = Append(audit_logs,
                        AuditRow(userId, "API_KEY_RETRIEVE_FULL", "API_KEY", keyId, TRUE))

\* The keys presented to validateApiKey: the keys of the store's rows, a
\* well-formed key that was never issued and a key of another shape.
PresentedKeys ==
    {Secret("litellm", 1), Secret("opaque", 2), Secret("local", 11),
     Secret("litellm", 12), Secret("local", 99), Secret("opaque", 99)}

\* validateApiKey(key): never throws; a failing statement gives isValid=false
\* ("Validation failed"); updateLastUsed writes no modelled column and its
\* failure is only logged.
ValidateApiKeyCall(r) ==
    \E key \in PresentedKeys, now \in 1..MaxTime :
        LET call == [IdleReq EXCEPT !.op = "validateApiKey", !.pc = "done",
                                    !.key = key, !.now = now]
        IN  /\ \/ Admit(r, [call EXCEPT !.result =
                        [kind |-> "validation", isValid |-> FALSE, id |-> NoKey,
                         error |-> "Validation failed"]])
               \/ Admit(r, [call EXCEPT !.result = ValidateApiKeyResult(Tables, key, now)])
            /\ ReadFrame

\* The store SpecRead starts on: u1 holds key 1 (with or without expiry), key
\* 2 whose proxy-issued secret has another shape (possibly revoked) and the
\* legacy key 11 linked to subscription 1; u2 holds key 12.
InitRead ==
    \E e1 \in {NoExpiry, 2}, e11 \in {NoExpiry, 2}, active2 \in BOOLEAN,
       s1 \in {"active", "inactive", "pending"} :
        /\ models = [m \in Models |-> ModelRow("available", FALSE, m, Null)]
        /\ subscriptions = InitSubscriptions(s1, "active")
        /\ api_keys =
            {[KeyRow(1, "u1", TRUE, hashApiKey(Secret("litellm", 1)),
                     Secret("litellm", 1), NoSub) EXCEPT !.expiresAt = e1],
             KeyRow(2, "u1", active2, hashApiKey(Secret("opaque", 2)),
                    Secret("opaque", 2), NoSub),
             [KeyRow(11, "u1", TRUE, hashApiKey(Secret("local", 11)), NoSecret, 1)
                    EXCEPT !.expiresAt = e11],
             KeyRow(12, "u2", TRUE, hashApiKey(Secret("litellm", 12)),
                    Secret("litellm", 12), NoSub)}
        /\ api_key_models = {<<1, "m1">>, <<2, "m2">>, <<12, "m1">>}
        /\ audit_logs = <<>>
        /\ proxyKeys = {Secret("litellm", 1), Secret("opaque", 2), Secret("litellm", 12)}
        /\ proxyKeyModels = {<<Secret("litellm", 1), "m1">>, <<Secret("opaque", 2), "m2">>,
                             <<Secret("litellm", 12), "m1">>}
        /\ proxyModels = <<>>
        /\ nextId = 20
        /\ calls = 0
        /\ OthersInit
        /\ req = [r \in Reqs |-> IdleReq]

NextRead ==
    \E r \in Serving :
        \/ GetApiKeyCall(r) /\ UNCHANGED proxyModels /\ OthersUnchanged
        \/ GetUserApiKeysCall(r) /\ UNCHANGED proxyModels /\ OthersUnchanged
        \/ RetrieveFullKeyCall(r) /\ UNCHANGED proxyModels /\ OthersUnchanged
        \/ ValidateApiKeyCall(r) /\ UNCHANGED proxyModels /\ OthersUnchanged
        \/ Finish(r) /\ ProxyListsUnchanged /\ OthersUnchanged

SpecRead == InitRead /\ [][NextRead]_vars

\* The key secrets of the store.
StoredSecrets == {k.liteLLMKeyValue : k \in api_keys} \ {NoSecret}

\* C13: getApiKey and getUserApiKeys return no field holding the secret of a
\* key, and retrieveFullKey returns a secret only for a key that is active
\* and not expired when it is called.
C13_SecretOnlyMasked ==
    \A r \in Reqs :
        /\ (Done(r, "getApiKey") \/ Done(r, "getUserApiKeys")) /\ req[r].error = "none"
            => \A k \in req[r].result.keys :
                k.liteLLMKey \notin StoredSecrets /\ k.liteLLMKeyId \notin StoredSecrets
        /\ (Done(r, "retrieveFullKey") /\ req[r].error = "none")
            => \E k \in api_keys :
                /\ k.id = req[r].keyId
                /\ k.userId = req[r].userId
                /\ k.liteLLMKeyValue = req[r].result.key
                /\ k.isActive
                /\ k.expiresAt # NoExpiry => k.expiresAt >= req[r].now

\* C14: validateApiKey(key) answers isValid=true only for a well-formed key
\* whose digest is the key_hash of a stored key that is active and not
\* expired at the call; when that key has a subscription_id and no
\* api_key_models row, its subscription is active.
C14_ValidOnlyIfLive ==
    \A r \in Reqs :
        (Done(r, "validateApiKey") /\ req[r].result.isValid)
            => /\ req[r].key.src # "opaque"
               /\ \E k \in api_keys :
                    /\ k.id = req[r].result.id
                    /\ k.keyHash = hashApiKey(req[r].key)
                    /\ k.isActive
                    /\ k.expiresAt # NoExpiry => k.expiresAt >= req[r].now
                    /\ (k.subscriptionId # NoSub /\ KeyModels(api_key_models, k.id) = {})
                        => \E s \in subscriptions :
                            s.id = k.subscriptionId /\ s.status = "active"

\* The legacy key with an active subscription is accepted.
C14_Witness ==
    \E r \in Reqs :
        /\ Done(r, "validateApiKey")
        /\ req[r].result.isValid
        /\ \E k \in api_keys :
            /\ k.id = req[r].result.id
            /\ k.subscriptionId # NoSub
            /\ k.expiresAt # NoExpiry

\* ----------------------------------------- ApiKeyService.deleteApiKey

\* LiteLLMService.deleteKey(key): POST /key/delete; the proxy forgets the key
\* and its allowed models.  Any error answer, "not found" included, is logged
\* and rethrown by deleteKey.
DeleteKeyAtProxy(keys, key) == keys \ {key}
DeleteKeyModelsAtProxy(pkm, key) == {row \in pkm : row[1] # key}

\* The catch around deleteKey in deleteApiKey: the failure is logged and the
\* local deletion proceeds.
\* (mutant: the failure is rethrown)
DelCatchRethrows(frame, answer) ==
    [frame EXCEPT !.pc = "done", !.proxyAnswer = answer, !.error = "Upstream",
                  !.failedAt = "del_proxy"]
DelCatch(frame, answer) ==
    [frame EXCEPT !.pc = "del_local", !.proxyAnswer = answer]

\* DELETE FROM api_keys WHERE id = $1, with the api_key_models rows that
\* reference the key (ON DELETE CASCADE).
DelDeleteKey(t, keyId) ==
    [t EXCEPT !.api_keys = {k \in t.api_keys : k.id # keyId},
              !.api_key_models = {row \in t.api_key_models : row[1] # keyId}]

StartDeleteApiKey(r) ==
    \E keyId \in {1, 2, 11, 21}, userId \in Users :
        /\ Admit(r, [IdleReq EXCEPT !.op = "deleteApiKey", !.pc = "del_get",
                                    !.keyId = keyId, !.userId = userId])
        /\ DbUnchanged
        /\ UNCHANGED <<proxyKeys, proxyKeyModels, nextId>>

\* const apiKey = await this.getApiKey(keyId, userId); the frame keeps
\* apiKey.liteLLMKeyId in key.
DelGet(r) ==
    /\ req[r].pc = "del_get"
    /\ LET found == GetApiKeyResult(Tables, req[r].keyId, req[r].userId)
       IN  \/ Set(r, [req[r] EXCEPT !.pc = "done", !.error = "Database",
                                    !.failedAt = "del_get"])
           \/ /\ found = {}
              /\ Set(r, [req[r] EXCEPT !.pc = "done", !.error = "NotFound",
                                       !.failedAt = "del_get"])
           \/ \E apiKey \in found :
                Set(r, [req[r] EXCEPT
                            !.key = apiKey.liteLLMKeyId,
                            !.pc = IF apiKey.liteLLMKeyId # NoSecret THEN "del_proxy"
                                                                     ELSE "del_local"])
    /\ DbUnchanged
    /\ UNCHANGED <<proxyKeys, proxyKeyModels, nextId, calls>>

\* await this.liteLLMService.deleteKey(apiKey.liteLLMKeyId) inside its own
\* try: the proxy deleted the key, or answered 404 because it has no such key,
\* or the call failed otherwise (refused or unanswered, the key being deleted
\* or not).
DelProxy(r) ==
    /\ req[r].pc = "del_proxy"
    /\ \/ /\ req[r].key \in proxyKeys
          /\ proxyKeys' = DeleteKeyAtProxy(proxyKeys, req[r].key)
          /\ proxyKeyModels' = DeleteKeyModelsAtProxy(proxyKeyModels, req[r].key)
          /\ Set(r, [req[r] EXCEPT !.pc = "del_local", !.proxyAnswer = "deleted"])
       \/ /\ req[r].key \notin proxyKeys
          /\ UNCHANGED <<proxyKeys, proxyKeyModels>>
          /\ Set(r, DelCatch(req[r], "notFound"))
       \/ /\ UNCHANGED <<proxyKeys, proxyKeyModels>>
          /\ Set(r, DelCatch(req[r], "failed"))
       \/ /\ req[r].key \in proxyKeys
          /\ proxyKeys' = DeleteKeyAtProxy(proxyKeys, req[r].key)
          /\ proxyKeyModels' = DeleteKeyModelsAtProxy(proxyKeyModels, req[r].key)
          /\ Set(r, DelCatch(req[r], "failed"))
    /\ DbUnchanged
    /\ UNCHANGED <<nextId, calls>>

\* The local DELETE and the audit insert are separate statements on the pool,
\* without a transaction.
DelLocal(r) ==
    /\ req[r].pc = "del_local"
    /\ \/ /\ Set(r, [req[r] EXCEPT !.pc = "done", !.error = "Database",
                                   !.failedAt = "del_local"])
          /\ UNCHANGED <<api_keys, api_key_models>>
       \/ /\ Set(r, [req[r] EXCEPT !.pc = "del_audit"])
          /\ api_keys' = DelDeleteKey(Tables, req[r].keyId).api_keys
          /\ api_key_models' = DelDeleteKey(Tables, req[r].keyId).api_key_models
    /\ UNCHANGED <<models, subscriptions, audit_logs>>
    /\ UNCHANGED <<proxyKeys, proxyKeyModels, nextId, calls>>

DelAudit(r) ==
    /\ req[r].pc = "del_audit"
    /\ \/ /\ Set(r, [req[r] EXCEPT !.pc = "done", !.error = "Database",
                                   !.failedAt = "del_audit"])
          /\ UNCHANGED audit_logs
       \/ /\ Set(r, [req[r] EXCEPT !.pc = "done"])
          /\ audit_logs' = Append(audit_logs,
                AuditRow(req[r].userId, "API_KEY_DELETE", "API_KEY", req[r].keyId, TRUE))
    /\ UNCHANGED <<models, subscriptions, api_keys, api_key_models>>
    /\ UNCHANGED <<proxyKeys, proxyKeyModels, nextId, calls>>

DeleteApiKey(r) == DelGet(r) \/ DelProxy(r) \/ DelLocal(r) \/ DelAudit(r)

\* The store SpecDelete starts on: the keys of InitRemoveKeys, each allowed
\* its models at the proxy, except that the proxy may have lost key 1 or key 2
\* (deleted there by an administrator).
InitDelete ==
    \E gone \in SUBSET {1, 2}, legacy \in BOOLEAN, A \in SUBSET Models \ {{}} :
        /\ models = [m \in Models |-> ModelRow("available", FALSE, m, Null)]
        /\ subscriptions = InitSubscriptions("active", "active")
        /\ api_keys = InitRemoveKeys(TRUE, legacy)
        /\ api_key_models = ({1, 2} \X A) \cup {<<12, "m1">>}
        /\ audit_logs = <<>>
        /\ proxyKeys = {Secret("litellm", i) : i \in ({1, 2} \ gone) \cup {12}}
        /\ proxyKeyModels = ({Secret("litellm", i) : i \in {1, 2} \ gone} \X A)
                                \cup {<<Secret("litellm", 12), "m1">>}
        /\ proxyModels = <<>>
        /\ nextId = 20
        /\ calls = 0
        /\ OthersInit
        /\ req = [r \in Reqs |-> IdleReq]

NextDelete ==
    \E r \in Serving :
        \/ Quiet /\ StartDeleteApiKey(r) /\ UNCHANGED proxyModels /\ OthersUnchanged
        \/ DeleteApiKey(r) /\ UNCHANGED proxyModels /\ OthersUnchanged
        \/ Finish(r) /\ ProxyListsUnchanged /\ OthersUnchanged

SpecDelete == InitDelete /\ [][NextDelete]_vars

\* C15: a deleteApiKey(keyId, userId) on a key of userId to which the proxy
\* answered that it has no such key does not throw on that account: it goes
\* on to the local deletion, throws only if one of its two database statements
\* fails, and when it returns the key's row and its join-table rows are gone.
C15_AbsentAtProxy ==
    \A r \in Reqs :
        (req[r].op = "deleteApiKey" /\ req[r].proxyAnswer = "notFound")
            => /\ req[r].error # "none"
                    => req[r].error = "Database"
                        /\ req[r].failedAt \in {"del_local", "del_audit"}
               /\ (req[r].pc = "done" /\ req[r].error = "none")
                    => /\ ~\E k \in api_keys : k.id = req[r].keyId
                       /\ KeyModels(api_key_models, req[r].keyId) = {}
                       /\ \E k \in req[r].pre.api_keys :
                            k.id = req[r].keyId /\ k.userId = req[r].userId

\* The proxy answered "not found" and the call returned.
C15_Witness ==
    \E r \in Reqs :
        /\ Done(r, "deleteApiKey")
        /\ req[r].proxyAnswer = "notFound"
        /\ req[r].error = "none"
        /\ \E k \in req[r].pre.api_keys : k.id = req[r].keyId

\* ------------- ModelSyncService.updateModelRestriction, the PUT /:id
\* ------------- restrictedAccess block and the restriction cascade

\* The slot a handler's nested service call runs in.
Nested == "r2"

\* UPDATE models SET restricted_access = $1 WHERE id = $2
UrUpdateModel(t, modelId, restrictedAccess) ==
    [m \in DOMAIN t.models |->
        IF m = modelId THEN [t.models[m] EXCEPT !.restrictedAccess = restrictedAccess]
                       ELSE t.models[m]]

\* if (restrictedAccess !== currentModel.restricted_access): the cascade runs.
\* (mutant: the cascade runs only when the flag is cleared)
UrChangedWhenCleared(restrictedAccess, previousValue) ==
    restrictedAccess # previousValue /\ ~restrictedAccess
UrChanged(restrictedAccess, previousValue) == restrictedAccess # previousValue

\* SubscriptionService.handleModelRestrictionChange(modelId, true), first
\* part: every active subscription on the model becomes pending, with the
\* reason "model became restricted".
RcSubscriptionRows(t, modelId) ==
    {s \in t.subscriptions : s.modelId = modelId /\ s.status = "active"}
RcUpdateSubscriptions(t, modelId) ==
    {IF s \in RcSubscriptionRows(t, modelId)
        THEN [s EXCEPT !.status = "pending", !.statusReason = "model became restricted"]
        ELSE s : s \in t.subscriptions}

\* handleModelRestrictionChange(modelId, false): no subscription is changed.
\* (mutant: the subscriptions the cascade made pending become active again)
RcClearReactivates(t, modelId) ==
    {IF s.modelId = modelId /\ s.status = "pending" /\ s.statusReason # NoReason
        THEN [s EXCEPT !.status = "active"] ELSE s : s \in t.subscriptions}
RcClear(t, modelId) == t.subscriptions

\* The users whose keys the cascade strips the model from: the owners of the
\* keys that reference it.
\* (mutant: no user's keys are stripped)
RcUsersNone(t, modelId) == {}
RcUsers(t, modelId) ==
    {k.userId : k \in {x \in t.api_keys : <<x.id, modelId>> \in t.api_key_models}}

\* A failing statement: updateModelRestriction lets the error propagate; the
\* route's block runs inside try { ... } catch (syncError) { log.warn }, so the
\* handler goes on to answer success.
UrThrow(r, at) ==
    /\ Set(r, [req[r] EXCEPT !.pc = "done", !.failedAt = at,
                             !.error = IF req[r].op = "updateModelRestriction"
                                          THEN "Database" ELSE "none"])
    /\ DbUnchanged
    /\ UNCHANGED <<proxyKeys, proxyKeyModels, nextId, calls>>

UrStep(r, pc) ==
    /\ Set(r, [req[r] EXCEPT !.pc = pc])
    /\ DbUnchanged
    /\ UNCHANGED <<proxyKeys, proxyKeyModels, nextId, calls>>

StartUpdateModelRestriction(r) ==
    \E modelId \in Models, restrictedAccess \in BOOLEAN :
        /\ Admit(r, [IdleReq EXCEPT !.op = "updateModelRestriction", !.pc = "ur_select",
                                    !.modelId = modelId,
                                    !.restrictedAccess = restrictedAccess])
        /\ DbUnchanged
        /\ UNCHANGED <<proxyKeys, proxyKeyModels, nextId>>

\* PUT /:id with updateData.restrictedAccess defined, from "Handle
\* restrictedAccess changes" on.
StartPutRestrictedAccess(r) ==
    \E modelId \in Models, restrictedAccess \in BOOLEAN :
        /\ Admit(r, [IdleReq EXCEPT !.op = "putRestrictedAccess", !.pc = "ur_select",
                                    !.modelId = modelId,
                                    !.restrictedAccess = restrictedAccess])
        /\ DbUnchanged
        /\ UNCHANGED <<proxyKeys, proxyKeyModels, nextId>>

\* SELECT restricted_access FROM models WHERE id = $1.  The service goes on to
\* the UPDATE in any case; the route only when the value is changing.
UrSelect(r) ==
    /\ req[r].pc = "ur_select"
    /\ LET previousValue == models[req[r].modelId].restrictedAccess
           changed == UrChanged(req[r].restrictedAccess, previousValue)
       IN  \/ UrThrow(r, "ur_select")
           \/ /\ Set(r, [req[r] EXCEPT
                            !.previousValue = previousValue,
                            !.pc = IF req[r].op = "putRestrictedAccess" /\ ~changed
                                      THEN "done" ELSE "ur_update"])
              /\ DbUnchanged
              /\ UNCHANGED <<proxyKeys, proxyKeyModels, nextId, calls>>

\* The UPDATE of the flag, a statement of its own on the pool; then the
\* cascade if the value changed, else the service's audit insert.
UrUpdate(r) ==
    /\ req[r].pc = "ur_update"
    /\ \/ UrThrow(r, "ur_update")
       \/ /\ models' = UrUpdateModel(Tables, req[r].modelId, req[r].restrictedAccess)
          /\ Set(r, [req[r] EXCEPT !.pc =
                IF UrChanged(req[r].restrictedAccess, req[r].previousValue)
                    THEN "rc_subscriptions" ELSE "ur_audit"])
          /\ UNCHANGED <<subscriptions, api_keys, api_key_models, audit_logs>>
          /\ UNCHANGED <<proxyKeys, proxyKeyModels, nextId, calls>>

\* handleModelRestrictionChange(modelId, restrictedAccess): the subscriptions.
RcSubscriptions(r) ==
    /\ req[r].pc = "rc_subscriptions"
    /\ \/ UrThrow(r, "rc_subscriptions")
       \/ /\ subscriptions' = IF req[r].restrictedAccess
                                 THEN RcUpdateSubscriptions(Tables, req[r].modelId)
                                 ELSE RcClear(Tables, req[r].modelId)
          /\ Set(r, [req[r] EXCEPT
                        !.pc = "rc_keys",
                        !.users = IF req[r].restrictedAccess
                                     THEN RcUsers(Tables, req[r].modelId) ELSE {}])
          /\ UNCHANGED <<models, api_keys, api_key_models, audit_logs>>
          /\ UNCHANGED <<proxyKeys, proxyKeyModels, nextId, calls>>

\* handleModelRestrictionChange: the next removeModelFromUserApiKeys(userId,
\* modelId), and after the last one the cascade's audit entry.
RcKeys(r) ==
    /\ req[r].pc = "rc_keys"
    /\ \/ /\ \E userId \in req[r].users :
                req' = [req EXCEPT
                    ![r] = [req[r] EXCEPT !.pc = "rc_return", !.users = @ \ {userId}],
                    ![Nested] = [IdleReq EXCEPT !.op = "removeModelFromUserApiKeys",
                                                !.pc = "rm_select", !.userId = userId,
                                                !.modelId = req[r].modelId,
                                                !.pre = Tables]]
          /\ UNCHANGED audit_logs
       \/ /\ req[r].users = {}
          /\ Set(r, [req[r] EXCEPT !.pc = "done", !.failedAt = "rc_audit",
                        !.error = IF req[r].op = "updateModelRestriction"
                                     THEN "Database" ELSE "none"])
          /\ UNCHANGED audit_logs
       \/ /\ req[r].users = {}
          /\ Set(r, [req[r] EXCEPT !.pc = IF req[r].op = "updateModelRestriction"
                                             THEN "ur_audit" ELSE "done"])
          /\ audit_logs' = Append(audit_logs,
                AuditRow("system", "RESTRICTION_CASCADE", "MODEL", req[r].modelId, TRUE))
    /\ UNCHANGED <<models, subscriptions, api_keys, api_key_models>>
    /\ UNCHANGED <<proxyKeys, proxyKeyModels, nextId, calls>>

\* The nested removeModelFromUserApiKeys has returned or thrown.  It returns
\* nothing; the caller's frame keeps the outcomes of its proxy updates for the
\* statement of the properties only.
RcReturn(r) ==
    /\ req[r].pc = "rc_return"
    /\ req[Nested].pc = "done"
    /\ req' = [req EXCEPT
            ![r] = IF req[Nested].error = "none"
                      THEN [req[r] EXCEPT !.pc = "rc_keys",
                                !.liteLLMUpdates = @ \cup req[Nested].liteLLMUpdates]
                      ELSE [req[r] EXCEPT !.pc = "done", !.failedAt = "rc_keys",
                                !.error = IF req[r].op = "updateModelRestriction"
                                             THEN "Database" ELSE "none"],
            ![Nested] = IdleReq]
    /\ DbUnchanged
    /\ UNCHANGED <<proxyKeys, proxyKeyModels, nextId, calls>>

\* updateModelRestriction: the audit insert with restrictedAccess and
\* previousValue.
UrAudit(r) ==
    /\ req[r].pc = "ur_audit"
    /\ \/ UrThrow(r, "ur_audit")
       \/ /\ audit_logs' = Append(audit_logs,
                AuditRow("admin", "MODEL_RESTRICTION_CHANGE", "MODEL", req[r].modelId, TRUE))
          /\ Set(r, [req[r] EXCEPT !.pc = "done"])
          /\ UNCHANGED <<models, subscriptions, api_keys, api_key_models>>
          /\ UNCHANGED <<proxyKeys, proxyKeyModels, nextId, calls>>

UpdateModelRestriction(r) == UrSelect(r) \/ UrUpdate(r) \/ UrAudit(r)

HandleModelRestrictionChange(r) == RcSubscriptions(r) \/ RcKeys(r) \/ RcReturn(r)

\* The store SpecRestrict starts on: m1 unrestricted or already restricted,
\* m2 unrestricted; u1 subscribed to m1 (active or pending) and to m2, u2
\* subscribed to m1; the keys of InitRemoveKeys, key 1 on both models, key 2
\* (possibly revoked) on m1.
InitRestrict ==
    \E r1 \in BOOLEAN, s1 \in {"active", "pending"}, active2 \in BOOLEAN :
        /\ models = [m \in Models |-> ModelRow("available", m = "m1" /\ r1, m, Null)]
        /\ subscriptions = InitSubscriptions(s1, "active")
        /\ api_keys = InitRemoveKeys(active2, FALSE)
        /\ api_key_models = ({1} \X Models) \cup {<<2, "m1">>, <<12, "m1">>}
        /\ audit_logs = <<>>
        /\ proxyKeys = {Secret("litellm", 1), Secret("litellm", 2), Secret("litellm", 12)}
        /\ proxyKeyModels = ({Secret("litellm", 1)} \X Models)
                                \cup {<<Secret("litellm", 2), "m1">>,
                                      <<Secret("litellm", 12), "m1">>}
        /\ proxyModels = <<>>
        /\ nextId = 20
        /\ calls = 0
        /\ OthersInit
        /\ req = [r \in Reqs |-> IdleReq]

NextRestrict ==
    \E r \in Serving :
        \/ Quiet /\ StartUpdateModelRestriction(r) /\ UNCHANGED proxyModels /\ OthersUnchanged
        \/ Quiet /\ StartPutRestrictedAccess(r) /\ UNCHANGED proxyModels /\ OthersUnchanged
        \/ UpdateModelRestriction(r) /\ UNCHANGED proxyModels /\ OthersUnchanged
        \/ HandleModelRestrictionChange(r) /\ UNCHANGED proxyModels /\ OthersUnchanged
        \/ RemoveModelFromUserApiKeys(Nested) /\ UNCHANGED proxyModels /\ OthersUnchanged
        \/ Finish(r) /\ ProxyListsUnchanged /\ OthersUnchanged

SpecRestrict == InitRestrict /\ [][NextRestrict]_vars

\* A toggle of the model's restrictedAccess from false to true, by either
\* entry point, whose cascade ran to its end.
Restricted(r) ==
    /\ req[r].op \in {"updateModelRestriction", "putRestrictedAccess"}
    /\ req[r].pc \in {"ur_audit", "done"}
    /\ req[r].restrictedAccess
    /\ ~req[r].pre.models[req[r].modelId].restrictedAccess
    /\ req[r].failedAt \in {"none", "ur_audit"}

C18_NeverReactivated ==
    [][\A s \in subscriptions :
            s.status = "pending" =>
                \E t \in subscriptions' : t.id = s.id /\ t.status = "pending"]_vars

\* A subscription the cascade made pending, after the flag was cleared again.
C18_Witness ==
    \E r \in Reqs :
        /\ Done(r, "updateModelRestriction")
        /\ req[r].error = "none"
        /\ ~req[r].restrictedAccess
        /\ req[r].pre.models[req[r].modelId].restrictedAccess
        /\ \E s \in subscriptions :
            /\ s.modelId = req[r].modelId
            /\ s.status = "pending"
            /\ s.statusReason # NoReason

\* --------------------------------------- ModelSyncService.syncModels

\* An entry of the list /model/info returns: model_name, model_info.id and
\* litellm_params.tpm (which may be left out).
LiteLLMModel(model_name, id, tpm) == [model_name |-> model_name, id |-> id, tpm |-> tpm]

\* The entries the proxy's catalog is made of: two deployments of m1 that
\* differ in model_info.id, and a deployment of m1 with tpm 0.  No entry
\* names m2: the proxy has dropped it.
ProxyEntries ==
    {LiteLLMModel("m1", "a", Undefined), LiteLLMModel("m1", "b", Undefined),
     LiteLLMModel("m1", "a", "0")}

\* The lists of at most n different elements of S.
SeqsUpTo(S, n) ==
    {q \in UNION {[1..k -> S] : k \in 0..n} :
        \A i, j \in DOMAIN q : q[i] = q[j] => i = j}

\* A value bound to a query parameter: undefined is stored as NULL.
SqlParam(x) == IF x = Undefined THEN Null ELSE x

\* JavaScript "x || null": undefined, 0 and '' give null.
OrNull(x) == IF x \in {Undefined, Null, "0", ""} THEN Null ELSE x

\* modelsEqual(existing, litellmModel), on the columns of ModelRow.
modelsEqual(existing, litellmModel) ==
    /\ existing.availability = "available"
    /\ existing.tpm = OrNull(litellmModel.tpm)
    /\ existing.litellmModelId = OrNull(litellmModel.id)

\* insertModel: INSERT INTO models (...) VALUES (...), availability
\* 'available'; restricted_access takes its default.
InsertModel(ms, litellmModel) ==
    [m \in DOMAIN ms \cup {litellmModel.model_name} |->
        IF m = litellmModel.model_name
            THEN ModelRow("available", FALSE, SqlParam(litellmModel.id),
                          SqlParam(litellmModel.tpm))
            ELSE ms[m]]

\* SQL COALESCE(a, b).
\* (mutant: the first argument, whatever it is)
CoalesceFirst(a, b) == a
Coalesce(a, b) == IF a # Null THEN a ELSE b

\* updateModel: preservedDescription = existing?.description || null, then
\* UPDATE models SET ..., description = COALESCE($4, description),
\* availability = 'available', tpm = $19, litellm_model_id = $22 WHERE id = $1.
UpdateModelRow(ms, litellmModel) ==
    [m \in DOMAIN ms |->
        IF m = litellmModel.model_name
            THEN [ms[m] EXCEPT !.availability = "available",
                               !.description =
                                    Coalesce(OrNull(ms[m].description), ms[m].description),
                               !.litellmModelId = SqlParam(litellmModel.id),
                               !.tpm = SqlParam(litellmModel.tpm)]
            ELSE ms[m]]

\* Array.from(existingModelIds).filter((id) => !litellmModelIds.has(id))
SyncUnavailableModelIds(ms, existingModelIds, litellmModels) ==
    {id \in existingModelIds :
        \A i \in 1..Len(litellmModels) : litellmModels[i].model_name # id}

SyncResult ==
    [kind |-> "sync", success |-> FALSE, totalModels |-> 0, newModels |-> 0,
     updatedModels |-> 0, unavailableModels |-> 0, errors |-> 0,
     forceUpdate |-> FALSE]

SyncFrame ==
    UNCHANGED <<subscriptions, api_keys, api_key_models, audit_logs, proxyKeys,
                proxyKeyModels, proxyModels, nextId, calls>>

\* syncModels(options), called on a fresh service or right after the previous
\* syncModels returned; the frame keeps the previous call's result.
StartSyncModels(r) ==
    \E forceUpdate \in BOOLEAN, markUnavailable \in BOOLEAN :
        /\ req[r].pc \in {"idle", "done"}
        /\ req[Nested].pc = "idle"
        /\ calls < MaxCalls
        /\ calls' = calls + 1
        /\ Set(r, [IdleReq EXCEPT !.op = "syncModels", !.pc = "sync_fetch",
                                  !.forceUpdate = forceUpdate,
                                  !.markUnavailable = markUnavailable,
                                  !.pre = Tables,
                                  !.result = [SyncResult EXCEPT !.forceUpdate = forceUpdate],
                                  !.previous = req[r].result])
        /\ DbUnchanged
        /\ UNCHANGED <<proxyKeys, proxyKeyModels, proxyModels, nextId>>

\* (mutant: the outer catch returns the result without recording the error)
SyncCatchSilent(r) ==
    /\ Set(r, [req[r] EXCEPT !.pc = "done", !.failedAt = req[r].pc])
    /\ UNCHANGED models
    /\ SyncFrame

\* The outer catch: the error is added to result.errors and the result is
\* returned with success still false.
SyncCatch(r) ==
    /\ Set(r, [req[r] EXCEPT !.pc = "done", !.result.errors = @ + 1,
                             !.failedAt = req[r].pc])
    /\ UNCHANGED models
    /\ SyncFrame

\* After the loop over litellmModels: the marking loop, or the return with
\* result.success = result.errors.length === 0.
SyncAfterModels(frame, ms) ==
    LET ids == SyncUnavailableModelIds(ms, frame.existingModelIds, proxyModels)
    IN  IF frame.markUnavailable /\ ids # {}
            THEN [frame EXCEPT !.pc = "sync_unavailable", !.unavailableModelIds = ids]
            ELSE [frame EXCEPT !.pc = "done", !.result.success = (frame.result.errors = 0)]

\* const litellmModels = await this.litellmService.getModels().  The list
\* the proxy serves is fixed in a behaviour, so a list served from the
\* service's cache is the list a fetch returns.
SyncFetch(r) ==
    /\ req[r].pc = "sync_fetch"
    /\ \/ SyncCatch(r)
       \/ /\ Set(r, [req[r] EXCEPT !.pc = "sync_existing",
                                   !.litellmModels = proxyModels,
                                   !.result.totalModels = Len(proxyModels)])
          /\ UNCHANGED models
          /\ SyncFrame

\* const existingModels = await this.getExistingModels(): every row of
\* models, whatever its availability.
SyncExisting(r) ==
    /\ req[r].pc = "sync_existing"
    /\ \/ SyncCatch(r)
       \/ /\ Set(r, LET frame == [req[r] EXCEPT !.existingModelIds = DOMAIN models]
                    IN  IF frame.litellmModels = <<>>
                            THEN SyncAfterModels(frame, models)
                            ELSE [frame EXCEPT !.pc = "sync_models"])
          /\ UNCHANGED models
          /\ SyncFrame

\* One round of "for (const litellmModel of litellmModels)": updateModel for
\* an id of existingModelIds (skipped when forceUpdate is false and
\* modelsEqual), insertModel otherwise, which fails on a row that is already
\* there; a failing statement is caught and counted in result.errors.
SyncModel(r) ==
    /\ req[r].pc = "sync_models"
    /\ LET litellmModel == Head(req[r].litellmModels)
           modelId == litellmModel.model_name
           Round(frame, ms) ==
                LET rest == [frame EXCEPT !.litellmModels = Tail(@)]
                IN  IF rest.litellmModels = <<>> THEN SyncAfterModels(rest, ms) ELSE rest
       IN  \/ /\ Set(r, Round([req[r] EXCEPT !.result.errors = @ + 1], models))
              /\ UNCHANGED models
           \/ /\ modelId \in req[r].existingModelIds
              /\ ~req[r].forceUpdate /\ modelsEqual(models[modelId], litellmModel)
              /\ Set(r, Round(req[r], models))
              /\ UNCHANGED models
           \/ /\ modelId \in req[r].existingModelIds
              /\ req[r].forceUpdate \/ ~modelsEqual(models[modelId], litellmModel)
              /\ models' = UpdateModelRow(models, litellmModel)
              /\ Set(r, Round([req[r] EXCEPT !.result.updatedModels = @ + 1], models'))
           \/ /\ modelId \notin req[r].existingModelIds
              /\ modelId \notin DOMAIN models
              /\ models' = InsertModel(models, litellmModel)
              /\ Set(r, Round([req[r] EXCEPT !.result.newModels = @ + 1], models'))
    /\ SyncFrame

\* One round of "for (const modelId of unavailableModelIds)": the call of
\* markModelUnavailable(modelId).
SyncUnavailable(r) ==
    /\ req[r].pc = "sync_unavailable"
    /\ \E modelId \in req[r].unavailableModelIds :
        req' = [req EXCEPT
            ![r] = [req[r] EXCEPT !.pc = "sync_return", !.unavailableModelIds = @ \ {modelId}],
            ![Nested] = [IdleReq EXCEPT !.op = "markModelUnavailable",
                                        !.pc = "mmu_connect", !.modelId = modelId,
                                        !.pre = Tables]]
    /\ UNCHANGED models
    /\ SyncFrame

\* markModelUnavailable returned (result.unavailableModels++ and the cascade
\* statistics are added) or threw (the error is caught and counted).
SyncReturn(r) ==
    /\ req[r].pc = "sync_return"
    /\ req[Nested].pc = "done"
    /\ LET counted ==
            IF req[Nested].error = "none"
                THEN [req[r] EXCEPT
                        !.result.unavailableModels = @ + 1,
                        !.cascadeResult.subscriptionsDeactivated =
                            @ + req[Nested].cascadeResult.subscriptionsDeactivated,
                        !.cascadeResult.apiKeyModelAssociationsRemoved =
                            @ + req[Nested].cascadeResult.apiKeyModelAssociationsRemoved,
                        !.cascadeResult.orphanedApiKeysDeactivated =
                            @ + req[Nested].cascadeResult.orphanedApiKeysDeactivated]
                ELSE [req[r] EXCEPT !.result.errors = @ + 1]
       IN  req' = [req EXCEPT
                ![r] = IF counted.unavailableModelIds = {}
                          THEN [counted EXCEPT !.pc = "done",
                                    !.result.success = (counted.result.errors = 0)]
                          ELSE [counted EXCEPT !.pc = "sync_unavailable"],
                ![Nested] = IdleReq]
    /\ UNCHANGED models
    /\ SyncFrame

SyncModels(r) ==
    SyncFetch(r) \/ SyncExisting(r) \/ SyncModel(r) \/ SyncUnavailable(r) \/ SyncReturn(r)

\* The store SpecSync starts on: m1 is absent from the catalog, or
\* available, or unavailable after a completed cascade (its subscriptions
\* inactive, no key referencing it); m2 is absent, or, where the proxy lists
\* nothing, unavailable; a key without a model is inactive.  The rows were
\* written by an earlier sync of a deployment "a" without tpm, and their
\* description is NULL, the empty string or a text of the administrator's.
\* The proxy's list does not change during a behaviour.
InitSync ==
    \E state \in [Models -> {"absent", "available", "unavailable"}],
       catalog \in SeqsUpTo(ProxyEntries, MaxCatalog),
       description \in {Null, "", "text"} :
        LET present == {m \in Models : state[m] # "absent"}
            live == {m \in Models : state[m] = "available"}
        IN  /\ \/ state["m2"] = "absent"
               \/ state["m2"] = "unavailable" /\ catalog = <<>>
            /\ (description # Null => state["m1"] # "absent")
            /\ models = [m \in present |->
                            [ModelRow(state[m], FALSE, "a", Null)
                                EXCEPT !.description = description]]
            /\ subscriptions =
                {[s EXCEPT !.status = IF s.modelId \in live THEN "active" ELSE "inactive"] :
                    s \in {x \in InitSubscriptions("active", "active") : x.modelId \in present}}
            /\ api_keys =
                {KeyRow(1, "u1", live # {}, hashApiKey(Secret("litellm", 1)),
                        Secret("litellm", 1), NoSub)}
            /\ api_key_models = {1} \X live
            /\ audit_logs = <<>>
            /\ proxyKeys = {Secret("litellm", 1)}
            /\ proxyKeyModels = {Secret("litellm", 1)} \X live
            /\ proxyModels = catalog
            /\ nextId = 20
            /\ calls = 0
            /\ OthersInit
            /\ req = [r \in Reqs |-> IdleReq]

NextSync ==
    \E r \in Serving :
        \/ StartSyncModels(r) /\ OthersUnchanged
        \/ SyncModels(r) /\ OthersUnchanged
        \/ MarkModelUnavailable(Nested) /\ ProxyListsUnchanged /\ OthersUnchanged

SpecSync == InitSync /\ [][NextSync]_vars

\* The models that were available when the call in slot r was made.
SyncAvailableBefore(r) ==
    {m \in DOMAIN req[r].pre.models : req[r].pre.models[m].availability = "available"}

\* C19: a syncModels with markUnavailable=true that got an empty list from
\* the proxy and met no error leaves every model unavailable and reports
\* unavailableModels equal to the number of models that were available
\* before the call.
C19_CountsAvailableModels ==
    \A r \in Reqs :
        (/\ Done(r, "syncModels")
         /\ req[r].markUnavailable
         /\ proxyModels = <<>>
         /\ req[r].result.success)
            => /\ \A m \in DOMAIN models : models[m].availability = "unavailable"
               /\ req[r].result.unavailableModels = Cardinality(SyncAvailableBefore(r))

\* C20: a syncModels({forceUpdate:false}) that follows a syncModels(
\* {forceUpdate:false}) which returned success, the proxy's list being the
\* same, reports updatedModels = 0.
C20_SecondSyncUpdatesNothing ==
    \A r \in Reqs :
        (/\ Done(r, "syncModels")
         /\ ~req[r].forceUpdate
         /\ req[r].result.success
         /\ req[r].previous.kind = "sync"
         /\ req[r].previous.success
         /\ ~req[r].previous.forceUpdate)
            => req[r].result.updatedModels = 0

\* C21: syncModels never throws.  A finished call has returned a result in
\* which success is true exactly when errors is empty; a failure of the
\* fetch, of one model or of one cascade leaves errors non-empty; and the
\* work that was done is counted: newModels is the number of rows added, a
\* row whose synced columns changed is counted in updatedModels and a model
\* that went from available to unavailable in unavailableModels.
C21_FailuresAreReported ==
    \A r \in Reqs :
        Done(r, "syncModels") =>
            LET before == req[r].pre.models
                result == req[r].result
            IN  /\ req[r].error = "none"
                /\ result.success <=> (result.errors = 0)
                /\ req[r].failedAt # "none" => result.errors > 0
                /\ result.newModels = Cardinality(DOMAIN models \ DOMAIN before)
                /\ (\E m \in DOMAIN before :
                        \/ models[m].tpm # before[m].tpm
                        \/ models[m].litellmModelId # before[m].litellmModelId)
                    => result.updatedModels > 0
                /\ (\E m \in DOMAIN before :
                        /\ before[m].availability = "available"
                        /\ models[m].availability = "unavailable")
                    => result.unavailableModels > 0

\* A call that added a row and then met a failure: both are in the result.
C21_Witness ==
    \E r \in Reqs :
        /\ Done(r, "syncModels")
        /\ req[r].result.newModels > 0
        /\ req[r].result.errors > 0
        /\ ~req[r].result.success

\* ----------------------------- admin routes: ensureActiveSubscriptions

\* The admin on whose behalf the subscriptions are provisioned.
adminUserId == "admin"

AutoCreated == "Auto-created by admin during API key assignment"
Reactivated == "Reactivated by admin during API key assignment"

\* A row of subscription_status_history.
HistoryRow(subscriptionId, oldStatus, newStatus, reason) ==
    [subscriptionId |-> subscriptionId, oldStatus |-> oldStatus,
     newStatus |-> newStatus, reason |-> reason]

\* const result = { created: [], activated: [], alreadyActive: [] }
AutoSubscriptionResult ==
    [kind |-> "ensure", created |-> {}, activated |-> {}, alreadyActive |-> {}]

\* modelIds.filter((id) => !existingModelIds.has(id)), existingModelIds from
\* SELECT id FROM models WHERE id = ANY($1)
EasInvalidModelIds(modelList) ==
    {modelList[i] : i \in DOMAIN modelList} \ DOMAIN models

\* SELECT id, model_id, status FROM subscriptions WHERE user_id = $1 AND
\* model_id = ANY($2), as the Map subsByModel.
EasSubsByModel(userId, modelList) ==
    LET found == {x \in subscriptions :
                    x.userId = userId /\ \E i \in DOMAIN modelList : modelList[i] = x.modelId}
    IN  [m \in {x.modelId : x \in found} |->
            CHOOSE x \in found : x.modelId = m]

\* CONSTRAINT unique_user_model_subscription UNIQUE (user_id, model_id)
\* (mutant: the table without the constraint)
EasInsertAllowedAlways(userId, modelId) == TRUE
EasInsertAllowed(userId, modelId) ==
    \A x \in subscriptions : ~(x.userId = userId /\ x.modelId = modelId)

\* UPDATE subscriptions SET status = 'active', status_reason = ... WHERE id = $2
\* (mutant: the statement leaves status as it is)
EasReactivateReasonOnly(subscriptionId) ==
    {IF x.id = subscriptionId THEN [x EXCEPT !.statusReason = Reactivated] ELSE x :
        x \in subscriptions}
EasReactivate(subscriptionId) ==
    {IF x.id = subscriptionId
        THEN [x EXCEPT !.status = "active", !.statusReason = Reactivated]
        ELSE x : x \in subscriptions}

\* The synchronous part of the loop up to its next statement: models whose
\* subscription was read as active go to alreadyActive; the loop stops at the
\* first model to insert or to reactivate, or returns the result.
RECURSIVE EasAdvance(_)
EasAdvance(frame) ==
    IF frame.modelList = <<>>
        THEN [frame EXCEPT !.pc = "done"]
        ELSE LET modelId == Head(frame.modelList)
             IN  IF modelId \notin DOMAIN frame.subsByModel
                    THEN [frame EXCEPT !.pc = "eas_insert"]
                    ELSE IF frame.subsByModel[modelId].status # "active"
                        THEN [frame EXCEPT !.pc = "eas_update"]
                        ELSE EasAdvance([frame EXCEPT
                                !.modelList = Tail(@),
                                !.result.alreadyActive = @ \cup {modelId}])

EasFrame ==
    UNCHANGED <<models, api_keys, api_key_models, proxyKeys, proxyKeyModels,
                proxyModels, circuitBreaker, clock, cache, calls>>

EasLocal(r, rec) ==
    /\ Set(r, rec)
    /\ UNCHANGED <<subscriptions, subscription_status_history, audit_logs, nextId>>
    /\ EasFrame

\* A failing statement: the error propagates to the route.
EasThrow(r, kind) ==
    EasLocal(r, [req[r] EXCEPT !.pc = "done", !.error = kind, !.failedAt = req[r].pc])

\* ensureActiveSubscriptions(userId, modelIds, adminUserId) for the user u1;
\* several calls may be in progress at once.
StartEnsureActiveSubscriptions(r) ==
    \E userId \in {"u1"}, modelList \in UNION {[1..k -> Models] : k \in 1..2} :
        /\ req[r].pc = "idle"
        /\ calls < MaxCalls
        /\ calls' = calls + 1
        /\ Set(r, [IdleReq EXCEPT !.op = "ensureActiveSubscriptions",
                                  !.pc = "eas_models", !.userId = userId,
                                  !.modelList = modelList,
                                  !.modelIds = {modelList[i] : i \in DOMAIN modelList},
                                  !.result = AutoSubscriptionResult,
                                  !.pre = Tables])
        /\ UNCHANGED <<subscriptions, subscription_status_history, audit_logs, nextId>>
        /\ UNCHANGED <<models, api_keys, api_key_models, proxyKeys, proxyKeyModels,
                       proxyModels, circuitBreaker, clock, cache>>

\* The model ids are validated against the models table.
EasModels(r) ==
    /\ req[r].pc = "eas_models"
    /\ \/ IF EasInvalidModelIds(req[r].modelList) # {}
            THEN EasLocal(r, [req[r] EXCEPT !.pc = "done", !.error = "BadRequest",
                                            !.failedAt = "eas_models",
                                            !.named = EasInvalidModelIds(req[r].modelList)])
            ELSE EasLocal(r, [req[r] EXCEPT !.pc = "eas_select"])
       \/ EasThrow(r, "Database")

\* The user's subscriptions to the requested models are read once.
EasSelect(r) ==
    /\ req[r].pc = "eas_select"
    /\ \/ EasLocal(r, EasAdvance([req[r] EXCEPT
                !.subsByModel = EasSubsByModel(req[r].userId, req[r].modelList)]))
       \/ EasThrow(r, "Database")

\* INSERT INTO subscriptions (...) VALUES ($1, $2, 'active', ...) RETURNING id;
\* the unique constraint rejects a second row of the pair.
EasInsert(r) ==
    /\ req[r].pc = "eas_insert"
    /\ LET modelId == Head(req[r].modelList)
       IN  \/ /\ EasInsertAllowed(req[r].userId, modelId)
              /\ subscriptions' = subscriptions \cup
                    {[SubRow(nextId, req[r].userId, modelId, "active")
                        EXCEPT !.statusReason = AutoCreated]}
              /\ nextId' = nextId + 1
              /\ Set(r, [req[r] EXCEPT !.pc = "eas_created_history",
                                       !.subscriptionId = nextId])
              /\ UNCHANGED <<subscription_status_history, audit_logs>>
              /\ EasFrame
           \/ /\ ~EasInsertAllowed(req[r].userId, modelId)
              /\ EasThrow(r, "UniqueViolation")
           \/ EasThrow(r, "Database")

\* INSERT INTO subscription_status_history (..., NULL, 'active', ...)
EasCreatedHistory(r) ==
    /\ req[r].pc = "eas_created_history"
    /\ \/ /\ subscription_status_history' = Append(subscription_status_history,
                HistoryRow(req[r].subscriptionId, Null, "active", AutoCreated))
          /\ Set(r, [req[r] EXCEPT !.pc = "eas_created_audit"])
          /\ UNCHANGED <<subscriptions, audit_logs, nextId>>
          /\ EasFrame
       \/ EasThrow(r, "Database")

\* The audit row ADMIN_AUTO_CREATE_SUBSCRIPTION, then result.created.push.
EasCreatedAudit(r) ==
    /\ req[r].pc = "eas_created_audit"
    /\ \/ /\ audit_logs' = Append(audit_logs,
                AuditRow(adminUserId, "ADMIN_AUTO_CREATE_SUBSCRIPTION", "SUBSCRIPTION",
                         req[r].subscriptionId, TRUE))
          /\ Set(r, EasAdvance([req[r] EXCEPT
                !.modelList = Tail(@),
                !.result.created = @ \cup
                    {[modelId |-> Head(req[r].modelList),
                      subscriptionId |-> req[r].subscriptionId]}]))
          /\ UNCHANGED <<subscriptions, subscription_status_history, nextId>>
          /\ EasFrame
       \/ EasThrow(r, "Database")

\* The subscription that was read as not active is set to active.
EasUpdate(r) ==
    /\ req[r].pc = "eas_update"
    /\ LET existing == req[r].subsByModel[Head(req[r].modelList)]
       IN  \/ /\ subscriptions' = EasReactivate(existing.id)
              /\ Set(r, [req[r] EXCEPT !.pc = "eas_activated_history",
                                       !.subscriptionId = existing.id])
              /\ UNCHANGED <<subscription_status_history, audit_logs, nextId>>
              /\ EasFrame
           \/ EasThrow(r, "Database")

\* INSERT INTO subscription_status_history (..., previousStatus, 'active', ...)
EasActivatedHistory(r) ==
    /\ req[r].pc = "eas_activated_history"
    /\ LET existing == req[r].subsByModel[Head(req[r].modelList)]
       IN  \/ /\ subscription_status_history' = Append(subscription_status_history,
                    HistoryRow(existing.id, existing.status, "active", Reactivated))
              /\ Set(r, [req[r] EXCEPT !.pc = "eas_activated_audit"])
              /\ UNCHANGED <<subscriptions, audit_logs, nextId>>
              /\ EasFrame
           \/ EasThrow(r, "Database")

\* The audit row ADMIN_AUTO_ACTIVATE_SUBSCRIPTION, then result.activated.push.
EasActivatedAudit(r) ==
    /\ req[r].pc = "eas_activated_audit"
    /\ LET existing == req[r].subsByModel[Head(req[r].modelList)]
       IN  \/ /\ audit_logs' = Append(audit_logs,
                    AuditRow(adminUserId, "ADMIN_AUTO_ACTIVATE_SUBSCRIPTION",
                             "SUBSCRIPTION", existing.id, TRUE))
              /\ Set(r, EasAdvance([req[r] EXCEPT
                    !.modelList = Tail(@),
                    !.result.activated = @ \cup
                        {[modelId |-> existing.modelId, subscriptionId |-> existing.id,
                          previousStatus |-> existing.status]}]))
              /\ UNCHANGED <<subscriptions, subscription_status_history, nextId>>
              /\ EasFrame
           \/ EasThrow(r, "Database")

EnsureActiveSubscriptions(r) ==
    \/ EasModels(r) \/ EasSelect(r) \/ EasInsert(r) \/ EasCreatedHistory(r)
    \/ EasCreatedAudit(r) \/ EasUpdate(r) \/ EasActivatedHistory(r)
    \/ EasActivatedAudit(r)

\* The store SpecEnsure starts on: m2 may be missing from the catalog; u1 has
\* no subscription to m1, or an active or an inactive one, and none or a
\* pending one to m2; u2 has an active subscription to m1.
InitEnsure ==
    \E present \in {{"m1"}, Models}, s1 \in {"none", "active", "inactive"},
       s2 \in {"none", "pending"} :
        /\ (s2 # "none" => "m2" \in present)
        /\ models = [m \in present |-> ModelRow("available", FALSE, m, Null)]
        /\ subscriptions = InitSubscriptions(s1, s2)
        /\ api_keys = {}
        /\ api_key_models = {}
        /\ audit_logs = <<>>
        /\ proxyKeys = {}
        /\ proxyKeyModels = {}
        /\ proxyModels = <<>>
        /\ nextId = 20
        /\ calls = 0
        /\ OthersInit
        /\ req = [r \in Reqs |-> IdleReq]

\* The calls are served concurrently, one in each slot: a step of either
\* slot may come next.
NextEnsure ==
    \E r \in Reqs :
        \/ StartEnsureActiveSubscriptions(r)
        \/ EnsureActiveSubscriptions(r)

SpecEnsure == InitEnsure /\ [][NextEnsure]_vars

\* C22: there is at most one subscription per (user, model) pair, whatever
\* the interleaving of the provisioning calls; no two calls report having
\* created the subscription of the same pair; and a call whose INSERT was
\* rejected because the pair has a row has thrown.
C22_OneSubscriptionPerPair ==
    /\ \A x, y \in subscriptions :
        (x.userId = y.userId /\ x.modelId = y.modelId) => x = y
    /\ \A r, q \in Reqs :
        (/\ r # q
         /\ req[r].op = "ensureActiveSubscriptions"
         /\ req[q].op = "ensureActiveSubscriptions"
         /\ req[r].userId = req[q].userId)
            => \A c \in req[r].result.created, d \in req[q].result.created :
                    c.modelId # d.modelId
    /\ \A r \in Reqs :
        (req[r].op = "ensureActiveSubscriptions" /\ req[r].error = "UniqueViolation")
            => /\ req[r].pc = "done"
               /\ \E x \in subscriptions :
                    x.userId = req[r].userId /\ x.modelId = Head(req[r].modelList)

\* Two calls for the same user and model ran together: one created the
\* subscription, the other one's INSERT was rejected.
C22_Witness ==
    \E r, q \in Reqs :
        /\ r # q
        /\ Done(r, "ensureActiveSubscriptions")
        /\ req[r].error = "UniqueViolation"
        /\ req[q].op = "ensureActiveSubscriptions"
        /\ req[q].userId = req[r].userId
        /\ \E c \in req[q].result.created : c.modelId = Head(req[r].modelList)
        /\ req[r].pre = req[q].pre

\* C23: when ensureActiveSubscriptions(user, modelIds) has returned, the user
\* has an active subscription to every requested model; a model for which
\* the call read no subscription is in created, its row inserted as active
\* with the system's reason and a history row NULL -> active; a model read as
\* not active is in activated with the status read, and a history row holds
\* that status; a model read as active has its row as it was read.
C23_AllActiveOnReturn ==
    \A r \in Reqs :
        (Done(r, "ensureActiveSubscriptions") /\ req[r].error = "none") =>
            \A m \in req[r].modelIds :
                \E x \in subscriptions :
                    /\ x.userId = req[r].userId /\ x.modelId = m
                    /\ x.status = "active"
                    /\ IF m \notin DOMAIN req[r].subsByModel
                        THEN /\ [modelId |-> m, subscriptionId |-> x.id]
                                    \in req[r].result.created
                             /\ x.statusReason = AutoCreated
                             /\ \E i \in DOMAIN subscription_status_history :
                                    subscription_status_history[i] =
                                        HistoryRow(x.id, Null, "active", AutoCreated)
                        ELSE IF req[r].subsByModel[m].status # "active"
                            THEN LET previousStatus == req[r].subsByModel[m].status
                                 IN  /\ [modelId |-> m, subscriptionId |-> x.id,
                                         previousStatus |-> previousStatus]
                                            \in req[r].result.activated
                                     /\ \E i \in DOMAIN subscription_status_history :
                                            subscription_status_history[i] =
                                                HistoryRow(x.id, previousStatus, "active",
                                                           Reactivated)
                            ELSE /\ m \in req[r].result.alreadyActive
                                 /\ x = req[r].subsByModel[m]

\* A call for two models that created the subscription to one of them and
\* reactivated the subscription to the other.
C23_Witness ==
    \E r \in Reqs :
        /\ Done(r, "ensureActiveSubscriptions") /\ req[r].error = "none"
        /\ req[r].result.created # {}
        /\ req[r].result.activated # {}

\* A call that found the subscription active and left it alone.
C23_WitnessAlreadyActive ==
    \E r \in Reqs :
        /\ Done(r, "ensureActiveSubscriptions") /\ req[r].error = "none"
        /\ req[r].result.alreadyActive # {}

\* ------------------------------------------ LiteLLMService.makeRequest

\* What an attempt can end in: a 2xx response, the 500 of a proxy without
\* models (which a request to /model/info can get), a 4xx response, or fetch
\* throwing (network error, abort after the timeout).  A 5xx response other
\* than that of /model/info is handled by the same statements as a 4xx one.
Answers == {"ok", "noModels", "4xx", "network"}

\* Date.now() - circuitBreakerLastFailureTime > CIRCUIT_BREAKER_TIMEOUT
BreakerExpired(cb, now) == now - cb.lastFailureTime > CIRCUIT_BREAKER_TIMEOUT

\* isCircuitBreakerTripped(): its result ...
isCircuitBreakerTripped(cb, now) == cb.isOpen /\ ~BreakerExpired(cb, now)

\* ... and the breaker it leaves: an open breaker whose timeout has expired
\* is closed and its failure count reset.
BreakerAfterCheck(cb, now) ==
    IF cb.isOpen /\ BreakerExpired(cb, now)
        THEN [cb EXCEPT !.isOpen = FALSE, !.failureCount = 0]
        ELSE cb

\* recordSuccess()
recordSuccess(cb) == [cb EXCEPT !.failureCount = 0, !.isOpen = FALSE]

\* recordFailure()
recordFailure(cb, now) ==
    [cb EXCEPT !.failureCount = @ + 1,
               !.lastFailureTime = now,
               !.isOpen = IF cb.failureCount + 1 >= CIRCUIT_BREAKER_THRESHOLD
                            THEN TRUE ELSE cb.isOpen]

MrFrame ==
    UNCHANGED <<models, subscriptions, api_keys, api_key_models, audit_logs,
                proxyKeys, proxyKeyModels, proxyModels,
                subscription_status_history, cache, nextId, calls>>

\* makeRequest(endpoint, options) up to its first await: the breaker check,
\* which throws at once when the breaker is tripped, then the first fetch.
\* Several requests may be in flight.
StartMakeRequest(r) ==
    /\ req[r].pc = "idle"
    /\ circuitBreaker' = BreakerAfterCheck(circuitBreaker, clock)
    /\ Set(r, IF isCircuitBreakerTripped(circuitBreaker, clock)
                THEN [IdleReq EXCEPT !.op = "makeRequest", !.pc = "done",
                                     !.error = "CircuitBreaker"]
                ELSE [IdleReq EXCEPT !.op = "makeRequest", !.pc = "mr_fetch",
                                     !.attempt = 1, !.fetches = 1,
                                     !.trial = circuitBreaker.isOpen])
    /\ UNCHANGED clock
    /\ MrFrame

\* The error an attempt's failure leaves in lastError.
MrError(answer) == IF answer = "network" THEN "Network" ELSE "Validation"

\* setTimeout(resolve, this.config.retryDelay * attempt): the wait after a
\* failed attempt that is not the last.
\* (mutant: the same wait after every attempt)
MrDelayConstant(attempt) == retryDelay
MrDelay(attempt) == retryDelay * attempt

\* await fetch(...) has settled.  A response that is ok is a success; a
\* response that is not ok throws a validation error inside the try, which
\* the catch of the loop treats like any other error; after the last attempt
\* the failure is recorded and lastError thrown.
MrAnswer(r) ==
    /\ req[r].pc = "mr_fetch"
    /\ \E answer \in Answers :
        /\ IF answer = "ok"
            THEN /\ circuitBreaker' = recordSuccess(circuitBreaker)
                 /\ Set(r, [req[r] EXCEPT !.pc = "done", !.proxyAnswer = answer])
            ELSE IF answer = "noModels"
                THEN /\ UNCHANGED circuitBreaker
                     /\ Set(r, [req[r] EXCEPT !.pc = "done", !.proxyAnswer = answer])
                ELSE IF req[r].attempt < retryAttempts
                    THEN /\ UNCHANGED circuitBreaker
                         /\ Set(r, [req[r] EXCEPT !.pc = "mr_delay",
                                                  !.proxyAnswer = answer,
                                                  !.delay = MrDelay(req[r].attempt)])
                    ELSE /\ circuitBreaker' = recordFailure(circuitBreaker, clock)
                         /\ Set(r, [req[r] EXCEPT !.pc = "done", !.proxyAnswer = answer,
                                                  !.error = MrError(answer),
                                                  !.failedAt = "mr_fetch"])
    /\ UNCHANGED clock
    /\ MrFrame

\* The wait before the next attempt is over: the next fetch.  The frame
\* keeps the length of the wait; the clock is moved by Tick only.
MrRetry(r) ==
    /\ req[r].pc = "mr_delay"
    /\ Set(r, [req[r] EXCEPT !.pc = "mr_fetch", !.attempt = @ + 1, !.fetches = @ + 1])
    /\ UNCHANGED <<circuitBreaker, clock>>
    /\ MrFrame

MakeRequest(r) == MrAnswer(r) \/ MrRetry(r)

\* The caller has the result or the error; the slot serves the next request.
MrFinish(r) ==
    /\ req[r].op = "makeRequest"
    /\ req[r].pc = "done"
    /\ Set(r, IdleReq)
    /\ UNCHANGED <<circuitBreaker, clock>>
    /\ MrFrame

\* Time passes: a millisecond, or CIRCUIT_BREAKER_TIMEOUT of them.
Tick ==
    \E d \in {1, CIRCUIT_BREAKER_TIMEOUT} :
        /\ clock + d <= CIRCUIT_BREAKER_TIMEOUT * MaxPeriods + MaxOffset
        /\ (clock + d) % CIRCUIT_BREAKER_TIMEOUT <= MaxOffset
        /\ clock' = clock + d
        /\ UNCHANGED <<circuitBreaker, req>>
        /\ MrFrame

\* A new LiteLLMService over an empty store.
InitBreaker ==
    /\ models = [m \in Models |-> ModelRow("available", FALSE, m, Null)]
    /\ subscriptions = {}
    /\ api_keys = {}
    /\ api_key_models = {}
    /\ audit_logs = <<>>
    /\ proxyKeys = {}
    /\ proxyKeyModels = {}
    /\ proxyModels = <<>>
    /\ nextId = 20
    /\ calls = 0
    /\ OthersInit
    /\ req = [r \in Reqs |-> IdleReq]

NextBreaker ==
    \/ \E r \in Reqs :
        \/ StartMakeRequest(r)
        \/ MakeRequest(r)
        \/ MrFinish(r)
    \/ Tick

SpecBreaker == InitBreaker /\ [][NextBreaker]_vars

\* The step in which the request of slot r is made.
MrStarts(r) == req[r].pc = "idle" /\ req'[r].op = "makeRequest"

\* The step in which the request of slot r returns or throws.
MrEnds(r) == req[r].op = "makeRequest" /\ req[r].pc # "done" /\ req'[r].pc = "done"

\* C24: a request made when the breaker is open and its open period has
\* expired is let through as a trial; when the trial fails the breaker is
\* open again, and when it succeeds the failure counter is 0.
C24_TrialDecides ==
    [][\A r \in Reqs :
        /\ (MrStarts(r) /\ circuitBreaker.isOpen /\ BreakerExpired(circuitBreaker, clock))
            => (req'[r].pc = "mr_fetch" /\ req'[r].trial)
        /\ (MrEnds(r) /\ req[r].trial)
            => IF req'[r].error # "none"
                THEN circuitBreaker'.isOpen
                ELSE circuitBreaker'.failureCount = 0]_vars

\* C25: the breaker is open once the failure count has reached
\* CIRCUIT_BREAKER_THRESHOLD; it stays open until CIRCUIT_BREAKER_TIMEOUT has
\* passed since the failure that opened it; and a request made in that time
\* throws the breaker's error without a fetch.
C25_OpenForTimeout ==
    [][/\ circuitBreaker'.failureCount >= CIRCUIT_BREAKER_THRESHOLD
            => circuitBreaker'.isOpen
       /\ (circuitBreaker.isOpen /\ ~BreakerExpired(circuitBreaker, clock'))
            => circuitBreaker'.isOpen
       /\ \A r \in Reqs :
            (MrStarts(r) /\ circuitBreaker.isOpen /\ ~BreakerExpired(circuitBreaker, clock))
                => /\ req'[r].pc = "done"
                   /\ req'[r].error = "CircuitBreaker"
                   /\ req'[r].fetches = 0]_vars

\* C26: a request whose attempt was answered by a 4xx response has ended
\* with that attempt, throwing the validation error made from the response.
C26_NoRetryAfter4xx ==
    \A r \in Reqs :
        (req[r].op = "makeRequest" /\ req[r].proxyAnswer = "4xx")
            => (req[r].pc = "done" /\ req[r].error = "Validation")

\* C27: when markModelUnavailable(M) has returned, every key that was active
\* before the call and had no api_key_models row for M is still active; the
\* legacy key, which has no api_key_models rows and whose subscription is to
\* another model, is one of them.
C27_UnrelatedKeysStayActive ==
    \A r \in Reqs :
        (Done(r, "markModelUnavailable") /\ req[r].error = "none") =>
            \A k \in req[r].pre.api_keys :
                (/\ k.isActive
                 /\ <<k.id, req[r].modelId>> \notin req[r].pre.api_key_models
                 /\ \A x \in req[r].pre.subscriptions :
                        x.id = k.subscriptionId => x.modelId # req[r].modelId)
                    => \E k2 \in api_keys : k2.id = k.id /\ k2.isActive

\* C28: deleteApiKey has removed the row of the key only if the proxy no
\* longer accepts the key's secret: no secret the proxy accepts is left
\* without its row by a deleteApiKey.
C28_LocalDeleteOnlyIfProxyGone ==
    \A r \in Reqs :
        (/\ req[r].op = "deleteApiKey"
         /\ \E k \in req[r].pre.api_keys : k.id = req[r].keyId
         /\ ~\E k \in api_keys : k.id = req[r].keyId)
            => req[r].key \notin proxyKeys

\* ---------------------------------- createApiKey among concurrent requests
\* The handlers await between their statements, so the requests of the two
\* slots interleave statement by statement: the validation, the limit check,
\* the proxy call and pg.connect of one request run between any two
\* statements of the other.

\* The request holds an open transaction (BEGIN has run, COMMIT or ROLLBACK
\* has not).
InTransaction(q) ==
    req[q].pc \in {"cak_insert_key", "cak_insert_models", "cak_audit", "cak_commit",
                   "cak_rollback", "mmu_model", "mmu_commit_skip", "mmu_subscriptions",
                   "mmu_associations", "mmu_orphans", "mmu_audit", "mmu_commit",
                   "mmu_rollback"}

\* req[r].tx is the transaction's view of the tables from BEGIN on, which is
\* what the database shows it as long as no other transaction commits before
\* it does.  The interleavings followed are those in which a BEGIN waits for
\* the open transaction of the other request: each of them is a schedule of
\* the program, and the statements outside the transactions are not ordered.
TxAlone(r) ==
    req[r].pc \in {"cak_begin", "mmu_begin"}
        => \A q \in Reqs \ {r} : ~InTransaction(q)

\* u1 subscribes to m1 and holds n active keys for it, one key or one less
\* than the limit; u2 holds key 12.
InitRace ==
    \E s2 \in {"none", "active"}, n \in {1, maxKeysPerUser - 1} :
        LET A == {m \in Models : m = "m1" \/ s2 = "active"}
        IN  /\ models = [m \in Models |-> ModelRow("available", FALSE, m, Null)]
            /\ subscriptions = InitSubscriptions("active", s2)
            /\ api_keys = fixKeyHashMigration(InitKeys(n, FALSE, FALSE))
            /\ api_key_models = ((1..n) \X A) \cup {<<12, "m1">>}
            /\ audit_logs = <<>>
            /\ proxyKeys = {Secret("litellm", i) : i \in (1..n) \cup {12}}
            /\ proxyKeyModels = ({Secret("litellm", i) : i \in 1..n} \X A)
                                    \cup {<<Secret("litellm", 12), "m1">>}
            /\ proxyModels = <<>>
            /\ nextId = 20
            /\ calls = 0
            /\ OthersInit
            /\ req = [r \in Reqs |-> IdleReq]

\* The requests are u1's, for a key on m1 (in either request shape), and the
\* administrator's markModelUnavailable(m1).
NextRace ==
    \E r \in Reqs :
        \/ StartCreateApiKey(r) /\ req'[r].userId = "u1" /\ (req'[r].modelIds = {"m1"} \/ req'[r].subscriptionId = 1) /\ ProxyListsUnchanged /\ OthersUnchanged
        \/ TxAlone(r) /\ CreateApiKey(r) /\ ProxyListsUnchanged /\ OthersUnchanged
        \/ StartMarkModelUnavailable(r) /\ req'[r].modelId = "m1" /\ ProxyListsUnchanged /\ OthersUnchanged
        \/ TxAlone(r) /\ MarkModelUnavailable(r) /\ ProxyListsUnchanged /\ OthersUnchanged

SpecRace == InitRace /\ [][NextRace]_vars

\* C29: however the createApiKey requests of a user interleave, the user
\* never has more than maxKeysPerUser (10) active keys.
C29_CeilingUnderConcurrency ==
    \A u \in Users : ActiveKeyCount(api_keys, u) <= maxKeysPerUser

\* C30: when a createApiKey for model M and a markModelUnavailable(M) have
\* both finished, in whatever order their statements ran, and M is
\* unavailable, no api_key_models row references M.
C30_NoAssociationToUnavailable ==
    \A r, q \in Reqs :
        (/\ Done(r, "createApiKey")
         /\ Done(q, "markModelUnavailable")
         /\ req[q].modelId \in req[r].modelIds
         /\ models[req[q].modelId].availability = "unavailable")
            => \A row \in api_key_models : row[2] # req[q].modelId

\* ------------------------- markModelUnavailable among concurrent requests
\* Two calls for the same model meet at step 1: the UPDATE of the model's row
\* takes the row's lock, which the transaction holds until COMMIT or ROLLBACK,
\* and the UPDATE of the other call waits for it and then evaluates its WHERE
\* clause on the committed row (PostgreSQL, READ COMMITTED, the default that
\* the code does not change).  BEGIN reads nothing.

\* The call holds the lock of its model's row: step 1 has updated the row and
\* the transaction is open.
MmuLockHeld(q) ==
    /\ req[q].op = "markModelUnavailable"
    /\ \/ req[q].pc \in {"mmu_subscriptions", "mmu_associations", "mmu_orphans",
                        "mmu_audit", "mmu_commit"}
       \/ /\ req[q].pc = "mmu_rollback"
          /\ req[q].failedAt \in {"mmu_subscriptions", "mmu_associations",
                                  "mmu_orphans", "mmu_audit", "mmu_commit"}

\* Step 1 once the row's lock is free: the statement sees the committed tables
\* of that moment, and so do the statements after it, since every writer of
\* these tables waits at its own step 1.
MmuModelLocked(r) ==
    /\ req[r].pc = "mmu_model"
    /\ \A q \in Reqs \ {r} : MmuLockHeld(q) => req[q].modelId # req[r].modelId
    /\ \/ IF MmuModelRows(Tables, req[r].modelId) = {}
            THEN MmuStep(r, "mmu_commit_skip", Tables)
            ELSE MmuStep(r, "mmu_subscriptions", MmuUpdateModel(Tables, req[r].modelId))
       \/ MmuThrow(r, "mmu_model")

\* The early COMMIT of a transaction that wrote nothing.
MmuCommitSkipShared(r) ==
    /\ req[r].pc = "mmu_commit_skip"
    /\ \/ /\ Set(r, [req[r] EXCEPT !.pc = "done"])
          /\ DbUnchanged
          /\ UNCHANGED <<proxyKeys, nextId, calls>>
       \/ MmuThrow(r, "mmu_commit_skip")

\* COMMIT: the transaction's rows become the tables' rows, and its audit row
\* follows the rows that the pool has inserted meanwhile (the failure audit
\* of another call).
MmuCommitShared(r) ==
    /\ req[r].pc = "mmu_commit"
    /\ \/ /\ Commit([req[r].tx EXCEPT !.audit_logs =
                        Append(audit_logs,
                               req[r].tx.audit_logs[Len(req[r].tx.audit_logs)])])
          /\ Set(r, [req[r] EXCEPT !.pc = "done"])
          /\ UNCHANGED <<proxyKeys, nextId, calls>>
       \/ MmuThrow(r, "mmu_commit")

MarkModelUnavailableShared(r) ==
    \/ MmuConnect(r)
    \/ MmuBegin(r)
    \/ MmuModelLocked(r)
    \/ MmuCommitSkipShared(r)
    \/ MmuSubscriptions(r)
    \/ MmuAssociations(r)
    \/ MmuOrphans(r)
    \/ MmuAudit(r)
    \/ MmuCommitShared(r)
    \/ MmuRollback(r)
    \/ MmuFailureAudit(r)

\* Both slots serve markModelUnavailable(m1), each once.
NextMark ==
    \E r \in Reqs :
        \/ StartMarkModelUnavailable(r) /\ req'[r].modelId = "m1" /\ ProxyListsUnchanged /\ OthersUnchanged
        \/ MarkModelUnavailableShared(r) /\ ProxyListsUnchanged /\ OthersUnchanged

SpecMark == Init /\ [][NextMark]_vars

\* The cascade audit rows of the model in the audit log.
CascadeAudits(modelId) ==
    {i \in 1..Len(audit_logs) :
        /\ audit_logs[i].action = "MODEL_MARKED_UNAVAILABLE_WITH_CASCADE"
        /\ audit_logs[i].resourceId = modelId
        /\ audit_logs[i].success}

\* Two calls for the same model have finished, the model having been
\* available when they were made.
BothMarked(r, q) ==
    /\ r # q
    /\ Done(r, "markModelUnavailable")
    /\ Done(q, "markModelUnavailable")
    /\ req[r].modelId = req[q].modelId
    /\ req[r].pre.models[req[r].modelId].availability = "available"
    /\ req[q].pre.models[req[q].modelId].availability = "available"

\* C31: when two markModelUnavailable(M) calls for an available model have
\* run concurrently, the cascade was applied at most once, and exactly once
\* when neither call failed: one cascade audit row, and between them the two
\* calls report each subscription deactivation and each association deletion
\* once, the other call reporting zeros.
C31_CascadeOnce ==
    \A r, q \in Reqs :
        BothMarked(r, q) =>
            LET M == req[r].modelId
                a == req[r].cascadeResult
                b == req[q].cascadeResult
            IN  /\ Cardinality(CascadeAudits(M)) <= 1
                /\ (a = ZeroCascade \/ b = ZeroCascade)
                /\ (req[r].error = "none" /\ req[q].error = "none") =>
                    /\ Cardinality(CascadeAudits(M)) = 1
                    /\ models[M].availability = "unavailable"
                    /\ a.subscriptionsDeactivated + b.subscriptionsDeactivated
                        = Cardinality(MmuSubscriptionRows(req[r].pre, M))
                    /\ a.apiKeyModelAssociationsRemoved + b.apiKeyModelAssociationsRemoved
                        = Cardinality(MmuAssociationRows(req[r].pre, M))
                    /\ MmuSubscriptionRows(Tables, M) = {}
                    /\ MmuAssociationRows(Tables, M) = {}

\* Both calls were made while the model was available (neither had committed
\* when the other was made), both returned normally, and the cascade
\* deactivated a subscription.
C31_Witness ==
    \E r, q \in Reqs :
        /\ BothMarked(r, q)
        /\ req[r].error = "none" /\ req[q].error = "none"
        /\ req[r].cascadeResult.subscriptionsDeactivated > 0
        /\ req[q].cascadeResult = ZeroCascade

\* C32: the flag and the cascade are one unit: when updateModelRestriction,
\* or the route's restrictedAccess handling, has failed inside the cascade,
\* the stored restrictedAccess of the model is the value it had before the
\* call, so that a retry with the same value is a change again.
C32_FlagAndCascadeOneUnit ==
    \A r \in Reqs :
        (/\ req[r].op \in {"updateModelRestriction", "putRestrictedAccess"}
         /\ req[r].pc = "done"
         /\ req[r].failedAt \in {"rc_subscriptions", "rc_keys", "rc_audit"})
            => models[req[r].modelId].restrictedAccess
                = req[r].pre.models[req[r].modelId].restrictedAccess

\* C33: no active multi-model key (a key without subscription_id) is left
\* with zero model associations: whatever removeModelFromUserApiKeys calls
\* have run, every active multi-model key has an api_key_models row.
C33_NoActiveKeyWithoutModels ==
    \A k \in api_keys :
        (k.isActive /\ k.subscriptionId = NoSub)
            => KeyModels(api_key_models, k.id) # {}

\* ------------------------------------------ POST /admin/users/:id/api-keys
\* The handler calls ensureActiveSubscriptions, then apiKeyService.createApiKey
\* with the same model ids, then inserts its own audit row.  Its catch block
\* turns an error into the response and undoes nothing.  The target user
\* exists (u1).

\* ensureActiveSubscriptions has returned subscriptionResult: createApiKey is
\* called.  The frame keeps the tables of the handler's start.
AdminCreateKeyCall(r) ==
    /\ req[r].op = "ensureActiveSubscriptions"
    /\ req[r].pc = "done"
    /\ req[r].error = "none"
    /\ Set(r, [IdleReq EXCEPT !.op = "createApiKey", !.pc = "cak_request",
                              !.userId = req[r].userId,
                              !.modelIds = req[r].modelIds,
                              !.result = req[r].result,
                              !.pre = req[r].pre, !.preProxy = proxyKeys])
    /\ DbUnchanged
    /\ UNCHANGED <<proxyKeys, nextId, calls>>

\* createApiKey has returned the key: INSERT INTO audit_logs ... 'ADMIN_CREATE_API_KEY'.
AdminCreateKeyAudit(r) ==
    /\ req[r].op = "createApiKey"
    /\ req[r].pc = "done"
    /\ req[r].error = "none"
    /\ \/ /\ audit_logs' = Append(audit_logs,
                AuditRow(adminUserId, "ADMIN_CREATE_API_KEY", "API_KEY",
                         req[r].newKeyId, TRUE))
          /\ Set(r, [req[r] EXCEPT !.op = "adminCreateApiKey"])
       \/ /\ UNCHANGED audit_logs
          /\ Set(r, [req[r] EXCEPT !.op = "adminCreateApiKey", !.error = "Database",
                                   !.failedAt = "admin_audit"])
    /\ UNCHANGED <<models, subscriptions, api_keys, api_key_models>>
    /\ UNCHANGED <<proxyKeys, nextId, calls>>

NextAdmin ==
    \E r \in Serving :
        \/ Quiet /\ StartEnsureActiveSubscriptions(r)
        \/ EnsureActiveSubscriptions(r)
        \/ AdminCreateKeyCall(r) /\ ProxyListsUnchanged /\ OthersUnchanged
        \/ CreateApiKey(r) /\ ProxyListsUnchanged /\ OthersUnchanged
        \/ AdminCreateKeyAudit(r) /\ ProxyListsUnchanged /\ OthersUnchanged
        \/ Finish(r) /\ ProxyListsUnchanged /\ OthersUnchanged

SpecAdmin == InitEnsure /\ [][NextAdmin]_vars

\* C34: a failed admin key creation leaves the user's subscriptions as they
\* were: when createApiKey has failed after ensureActiveSubscriptions created
\* or reactivated subscriptions for the request, the subscriptions table is
\* the one the handler started on.
C34_FailedCreateKeepsSubscriptions ==
    \A r \in Reqs :
        (/\ Done(r, "createApiKey")
         /\ req[r].error # "none"
         /\ req[r].result.created \cup req[r].result.activated # {})
            => subscriptions = req[r].pre.subscriptions

\* C35: an answer of the proxy with a 4xx status is not a failure of the
\* breaker: the step in which a request ends on a 4xx answer leaves
\* failureCount, lastFailureTime and isOpen as they were.
C35_AnswerIsNoFailure ==
    [][\A r \in Reqs :
        (/\ req[r].pc = "mr_fetch"
         /\ req'[r].pc = "done"
         /\ req'[r].proxyAnswer = "4xx")
            => circuitBreaker' = circuitBreaker]_vars

\* ------------------------------------------------ LiteLLMService.getModels
\* The cache entry of the model list, per LiteLLMService instance.

\* setCache(cacheKey, data): the entry made at the instant now.
setCache(data, now) ==
    [present |-> TRUE, data |-> data, timestamp |-> now, ttl |-> DEFAULT_CACHE_TTL]

\* getCache returns the entry's data: there is an entry and it has not
\* expired.
CacheLive(e, now) == e.present /\ ~(now - e.timestamp > e.ttl)

\* getCache deletes the entry it finds expired.
CacheAfterGet(e, now) == IF e.present /\ ~CacheLive(e, now) THEN NoEntry ELSE e

CacheFrame ==
    UNCHANGED <<models, subscriptions, api_keys, api_key_models, proxyKeys,
                proxyKeyModels, subscription_status_history, circuitBreaker, nextId>>

\* getModels(options) on one of the instances.  ModelSyncService calls its
\* instance without options; the routes call theirs with and without
\* refresh.
StartGetModels(r) ==
    \E service \in Services, refresh \in BOOLEAN :
        /\ (service = "sync" => ~refresh)
        /\ Admit(r, [IdleReq EXCEPT !.op = "getModels", !.pc = "gm_cache",
                                    !.service = service, !.refresh = refresh,
                                    !.entry = cache[service]])
        /\ UNCHANGED <<audit_logs, proxyModels, clock, cache>>
        /\ CacheFrame

\* if (!options.refresh) { const cached = this.getCache(cacheKey); if (cached) return cached }
GmCache(r) ==
    /\ req[r].pc = "gm_cache"
    /\ LET e == cache[req[r].service]
       IN  IF req[r].refresh
             THEN /\ Set(r, [req[r] EXCEPT !.pc = "gm_fetch"])
                  /\ UNCHANGED cache
             ELSE /\ cache' = [cache EXCEPT ![req[r].service] = CacheAfterGet(e, clock)]
                  /\ Set(r, IF CacheLive(e, clock)
                              THEN [req[r] EXCEPT !.pc = "done", !.fromCache = TRUE,
                                                  !.litellmModels = e.data]
                              ELSE [req[r] EXCEPT !.pc = "gm_fetch"])
    /\ UNCHANGED <<audit_logs, proxyModels, clock, calls>>
    /\ CacheFrame

\* makeRequest('/model/info') has returned or thrown.  It returns the proxy's
\* list, or { data: [] } for the proxy's 500 'no models' answer, and the list
\* is cached and returned; when it throws, the catch returns what getCache
\* gives, or throws the error.
GmFetch(r) ==
    /\ req[r].pc = "gm_fetch"
    /\ LET e == cache[req[r].service]
       IN  \/ /\ cache' = [cache EXCEPT ![req[r].service] = setCache(proxyModels, clock)]
              /\ Set(r, [req[r] EXCEPT !.pc = "done", !.litellmModels = proxyModels,
                                       !.proxyAnswer =
                                            IF proxyModels = <<>> THEN "noModels" ELSE "ok"])
           \/ /\ cache' = [cache EXCEPT ![req[r].service] = CacheAfterGet(e, clock)]
              /\ Set(r, IF CacheLive(e, clock)
                          THEN [req[r] EXCEPT !.pc = "done", !.fromCache = TRUE,
                                              !.litellmModels = e.data,
                                              !.proxyAnswer = "network"]
                          ELSE [req[r] EXCEPT !.pc = "done", !.error = "Network",
                                              !.failedAt = "gm_fetch",
                                              !.proxyAnswer = "network"])
    /\ UNCHANGED <<audit_logs, proxyModels, clock, calls>>
    /\ CacheFrame

GetModels(r) == GmCache(r) \/ GmFetch(r)

\* PUT /admin/models/:id: liteLLMService.updateModel has changed the model at
\* the proxy, whose list is now another one.
StartPutModel(r) ==
    \E list \in SeqsUpTo(ProxyEntries, MaxCatalog) \ {proxyModels} :
        /\ Admit(r, [IdleReq EXCEPT !.op = "putModel", !.pc = "put_audit",
                                    !.service = "sync", !.entry = cache["sync"]])
        /\ proxyModels' = list
        /\ UNCHANGED <<audit_logs, clock, cache>>
        /\ CacheFrame

\* The MODEL_UPDATE audit row; a failure ends the handler with the error.
PutAudit(r) ==
    /\ req[r].pc = "put_audit"
    /\ \/ /\ audit_logs' = Append(audit_logs,
                AuditRow("admin", "MODEL_UPDATE", "MODEL", req[r].modelId, TRUE))
          /\ Set(r, [req[r] EXCEPT !.pc = "put_clear"])
       \/ /\ UNCHANGED audit_logs
          /\ Set(r, [req[r] EXCEPT !.pc = "done", !.error = "Database",
                                   !.failedAt = "put_audit"])
    /\ UNCHANGED <<proxyModels, clock, cache, calls>>
    /\ CacheFrame

\* await liteLLMService.clearCache('models:'): the routes' instance.
PutClear(r) ==
    /\ req[r].pc = "put_clear"
    /\ cache' = [cache EXCEPT !["route"] = NoEntry]
    /\ Set(r, [req[r] EXCEPT !.pc = "put_delay"])
    /\ UNCHANGED <<audit_logs, proxyModels, clock, calls>>
    /\ CacheFrame

\* The wait of two seconds, then modelSyncService.syncModels({ forceUpdate:
\* true }), whose first statement is this.litellmService.getModels().  What
\* syncModels does with the list is SyncModels.
PutDelay(r) ==
    /\ req[r].pc = "put_delay"
    /\ clock' = clock + 2000
    /\ Set(r, [req[r] EXCEPT !.pc = "gm_cache"])
    /\ UNCHANGED <<audit_logs, proxyModels, cache, calls>>
    /\ CacheFrame

PutModel(r) == PutAudit(r) \/ PutClear(r) \/ PutDelay(r)

\* Time passes between two requests: a millisecond, or DEFAULT_CACHE_TTL of
\* them.
CacheTick ==
    \E d \in {1, DEFAULT_CACHE_TTL} :
        /\ Quiet
        /\ clock + d <= CIRCUIT_BREAKER_TIMEOUT + 1 + MaxPeriods * DEFAULT_CACHE_TTL
                            + MaxCalls * 2000 + MaxOffset
        /\ (d = 1 => (clock - CIRCUIT_BREAKER_TIMEOUT) % 2000 <= MaxOffset)
        /\ clock' = clock + d
        /\ UNCHANGED <<audit_logs, proxyModels, cache, calls, req>>
        /\ CacheFrame

\* New service instances over an empty store; the proxy serves a catalog.
InitCache ==
    \E catalog \in SeqsUpTo(ProxyEntries, MaxCatalog) :
        /\ models = [m \in Models |-> ModelRow("available", FALSE, m, Null)]
        /\ subscriptions = {}
        /\ api_keys = {}
        /\ api_key_models = {}
        /\ audit_logs = <<>>
        /\ proxyKeys = {}
        /\ proxyKeyModels = {}
        /\ proxyModels = catalog
        /\ nextId = 20
        /\ calls = 0
        /\ OthersInit
        /\ req = [r \in Reqs |-> IdleReq]

NextCache ==
    \/ \E r \in Serving :
        \/ Quiet /\ StartGetModels(r)
        \/ Quiet /\ StartPutModel(r)
        \/ GetModels(r)
        \/ PutModel(r)
        \/ Finish(r) /\ ProxyListsUnchanged /\ OthersUnchanged
    \/ CacheTick

SpecCache == InitCache /\ [][NextCache]_vars

\* C36: the re-sync after an admin model update reconciles against the list
\* the proxy serves after the update: when its getModels has returned and the
\* proxy did not fail, the list is not from the cache and is the proxy's list.
C36_ResyncReadsAfresh ==
    \A r \in Reqs :
        (/\ Done(r, "putModel")
         /\ req[r].error = "none"
         /\ req[r].proxyAnswer # "network")
            => /\ ~req[r].fromCache
               /\ req[r].litellmModels = proxyModels

\* C37: when the fetch of the model list has failed and the instance holds a
\* cache entry for the key, getModels returns the entry's data instead of
\* throwing.
C37_StaleEntryOnFailure ==
    \A r \in Reqs :
        (/\ req[r].op \in {"getModels", "putModel"}
         /\ req[r].pc = "done"
         /\ req[r].proxyAnswer = "network"
         /\ req[r].entry.present)
            => /\ req[r].error = "none"
               /\ req[r].litellmModels = req[r].entry.data

\* ------------------------------------------------ LiteLLMService.deleteKey

\* deleteKey(apiKey), called on its own, as the idempotent delete of the
\* proxy client.
StartDeleteKey(r) ==
    \E i \in {1, 2} :
        /\ Admit(r, [IdleReq EXCEPT !.op = "deleteKey", !.pc = "dk_request",
                                    !.key = Secret("litellm", i)])
        /\ DbUnchanged
        /\ UNCHANGED <<proxyKeys, proxyKeyModels, nextId>>

\* try { await this.makeRequest('/key/delete', ...) } catch (error) { log;
\* throw error }: the proxy deleted the key, or it answered 404 because it has
\* no such key, which makeRequest throws as a validation error, or the
\* request failed otherwise.  Whatever makeRequest throws is rethrown.
DeleteKey(r) ==
    /\ req[r].pc = "dk_request"
    /\ \/ /\ req[r].key \in proxyKeys
          /\ proxyKeys' = DeleteKeyAtProxy(proxyKeys, req[r].key)
          /\ proxyKeyModels' = DeleteKeyModelsAtProxy(proxyKeyModels, req[r].key)
          /\ Set(r, [req[r] EXCEPT !.pc = "done", !.proxyAnswer = "deleted"])
       \/ /\ req[r].key \notin proxyKeys
          /\ UNCHANGED <<proxyKeys, proxyKeyModels>>
          /\ Set(r, [req[r] EXCEPT !.pc = "done", !.proxyAnswer = "notFound",
                                   !.error = "Validation", !.failedAt = "dk_request"])
       \/ /\ UNCHANGED <<proxyKeys, proxyKeyModels>>
          /\ Set(r, [req[r] EXCEPT !.pc = "done", !.proxyAnswer = "failed",
                                   !.error = "Upstream", !.failedAt = "dk_request"])
    /\ DbUnchanged
    /\ UNCHANGED <<nextId, calls>>

NextDeleteKey ==
    \E r \in Serving :
        \/ Quiet /\ StartDeleteKey(r) /\ UNCHANGED proxyModels /\ OthersUnchanged
        \/ DeleteKey(r) /\ UNCHANGED proxyModels /\ OthersUnchanged
        \/ Finish(r) /\ ProxyListsUnchanged /\ OthersUnchanged

SpecDeleteKey == InitDelete /\ [][NextDeleteKey]_vars

\* C38: deleteKey is idempotent: when the proxy has answered that it has no
\* such key, deleteKey has returned without an error.
C38_DeleteKeyIdempotent ==
    \A r \in Reqs :
        (Done(r, "deleteKey") /\ req[r].proxyAnswer = "notFound")
            => req[r].error = "none"

\* C39: a request is attempted at most retryAttempts times; after the k-th
\* failed attempt, k below retryAttempts, the client waits retryDelay * k
\* and tries again, and a request ends with an error of the proxy only after
\* the last attempt, the error being that attempt's.
C39_BoundedRetriesLinearBackoff ==
    \A r \in Reqs :
        req[r].op = "makeRequest" =>
            /\ req[r].fetches <= retryAttempts
            /\ req[r].fetches = req[r].attempt
            /\ req[r].pc = "mr_delay" =>
                /\ req[r].attempt < retryAttempts
                /\ req[r].delay = retryDelay * req[r].attempt
            /\ (req[r].pc = "done" /\ req[r].error \notin {"none", "CircuitBreaker"}) =>
                /\ req[r].attempt = retryAttempts
                /\ req[r].error = MrError(req[r].proxyAnswer)

\* A request that failed three times: it waited after the first and after
\* the second attempt, and threw the error of the third.
C39_Witness ==
    \E r \in Reqs :
        /\ req[r].op = "makeRequest"
        /\ req[r].pc = "done"
        /\ req[r].error = "Network"
        /\ req[r].fetches = retryAttempts
        /\ req[r].delay = retryDelay * (retryAttempts - 1)

\* C40: syncModels never changes a description that is not NULL: during and
\* after a syncModels, with forceUpdate set or not, every model whose
\* description was not NULL when the call was made has that description.
C40_DescriptionKept ==
    \A r \in Reqs :
        req[r].op = "syncModels" =>
            \A m \in DOMAIN req[r].pre.models :
                req[r].pre.models[m].description # Null
                    => /\ m \in DOMAIN models
                       /\ models[m].description = req[r].pre.models[m].description

\* A forced syncModels has updated the row of a model whose description is
\* the empty string, which "|| null" turns into NULL before the UPDATE.
C40_Witness ==
    \E r \in Reqs :
        /\ Done(r, "syncModels")
        /\ req[r].forceUpdate
        /\ req[r].result.updatedModels > 0
        /\ req[r].pre.models["m1"].description = ""
        /\ models["m1"].description = ""

====
